---- MODULE Spec2Model ----
(***************************************************************************)
(* A model of the single-header HTTP/1.1 server of src/http.hpp:           *)
(*   - incoming_request::parse_bytes, the incremental request parser;      *)
(*   - response::~response, the serialisation of a response into its slot; *)
(*   - server::listen / server::wake, the select() loop and its queues;    *)
(*   - server::stop, and tweak::sync of src/tweak.cpp on top of the server.*)
(* Bytes are one-character strings; a std::string is a sequence of them.   *)
(***************************************************************************)
EXTENDS Integers, Sequences, FiniteSets, TLC

VARIABLES
    \* ---- parser harness (one incoming_request fed by parse_bytes calls)
    plan,              \* the messages the wire stream was built from
    wire,              \* the whole byte stream
    pos,               \* number of bytes of wire already passed to parse_bytes
    ulong_bits,        \* width of unsigned long of the build (stoul's result)
    incoming_request,  \* the incoming_request object
    delivered,         \* requests seen by on_finish, in call order
    outcome            \* how the last parse_bytes call ended: "ok" (returned
                       \* true), "fail" (returned false), "throw" (std::stoul
                       \* threw), "assert" (the assertion of Body mode failed)

pvars == <<plan, wire, pos, ulong_bits, incoming_request, delivered, outcome>>

VARIABLES
    \* ---- response::~response on its own
    response,          \* a response object about to be destroyed
    slot               \* the message it is paired with

rvars == <<response, slot>>

VARIABLES
    \* ---- server::listen, its clients and the response handles
    lpc,               \* where the thread in server::listen is
    mutex,             \* server::mutex: "free" or "loop" (held by listen)
    clients,           \* server::clients: client records, in list order
    message,           \* the message objects, by address
    handle,            \* the response object made for the message at each address
    read_fds,          \* connections in read_fds when select was called
    write_fds,         \* connections in write_fds when select was called
    turn,              \* position in clients of the client being processed
    lrest,             \* bytes of the recv buffer not parsed yet
    wake_pending,      \* datagrams waiting on wake_socket
    arrivals,          \* connections and requests the peers have made so far
    quit_flag,         \* server::quit_flag
    running,           \* server::running
    wake_socket,       \* server::wake_socket
    stop_pc,           \* where each thread that calls server::stop is
    sent,              \* per socket: the bytes it took of responses not yet complete
    order              \* per socket: the requests parsed and not yet answered in full

stopvars == <<quit_flag, running, wake_socket, stop_pc>>

svars == <<lpc, mutex, clients, message, handle, read_fds, write_fds, turn, lrest,
           wake_pending, arrivals, sent, order, stopvars>>

VARIABLES
    \* ---- tweak::sync and the long polls it keeps
    polls,             \* internal.polls: the parked responses, in list order
    state_serial,      \* internal.state_serial
    state,             \* internal.state
    answered           \* the responses destroyed by the last call of sync

tvars == <<polls, state_serial, state, answered>>

vars == <<pvars, rvars, svars, tvars>>

\* ------------------------------------------------------------------ bytes

CR == "\r"
LF == "\n"
SP == " "
HT == "\t"
CRLF == <<CR, LF>>

UpperChars == <<"A","B","C","D","E","F","G","H","I","J","K","L","M",
                "N","O","P","Q","R","S","T","U","V","W","X","Y","Z">>
LowerChars == <<"a","b","c","d","e","f","g","h","i","j","k","l","m",
                "n","o","p","q","r","s","t","u","v","w","x","y","z">>
DigitChars == <<"0","1","2","3","4","5","6","7","8","9">>

Range(s) == { s[i] : i \in DOMAIN s }

IsDigit(c) == c \in Range(DigitChars)
DigitVal(c) == (CHOOSE i \in DOMAIN DigitChars : DigitChars[i] = c) - 1

\* isspace() of the C locale, as used by strtoul to skip leading white space
IsSpace(c) == c \in {SP, HT, CR, LF}

\* std::string::find(ch, from) with 1-based positions; 0 stands for npos
Find(s, ch, from) ==
    IF \E i \in from..Len(s) : s[i] = ch
    THEN CHOOSE i \in from..Len(s) : s[i] = ch /\ \A j \in from..(i-1) : s[j] # ch
    ELSE 0

\* the characters of s from 1-based position p to the end (substr(p-1))
From(s, p) == SubSeq(s, p, Len(s))

\* does s begin with prefix p (s.substr(0, Len(p)) == p)
StartsWith(s, p) == Len(s) >= Len(p) /\ SubSeq(s, 1, Len(p)) = p

RECURSIVE Concat(_)
Concat(ss) == IF ss = <<>> THEN <<>> ELSE Head(ss) \o Concat(Tail(ss))

\* ------------------------------------------------- std::to_string, std::stoul

RECURSIVE NatToString(_)
NatToString(n) ==
    IF n < 10 THEN <<DigitChars[n + 1]>>
    ELSE NatToString(n \div 10) \o <<DigitChars[(n % 10) + 1]>>

to_string(n) == IF n < 0 THEN <<"-">> \o NatToString(0 - n) ELSE NatToString(n)

\* Unsigned integers wider than TLC's own are kept as 16-bit limbs, least
\* significant first: 4 limbs hold the digits read by strtoul.
LimbBase == 256 * 256
ZeroLimbs == <<0, 0, 0, 0>>

\* limbs * 10 + d, with the carry out of the top limb
MulAdd(l, d) ==
    LET a0 == l[1] * 10 + d
        a1 == l[2] * 10 + (a0 \div LimbBase)
        a2 == l[3] * 10 + (a1 \div LimbBase)
        a3 == l[4] * 10 + (a2 \div LimbBase)
    IN  [limbs |-> <<a0 % LimbBase, a1 % LimbBase, a2 % LimbBase, a3 % LimbBase>>,
         carry |-> a3 \div LimbBase]

\* does the magnitude exceed ULONG_MAX of a build with the given width
TooWide(l, carry, bits) ==
    \/ carry > 0
    \/ bits = 32 /\ (l[3] > 0 \/ l[4] > 0)

\* the leading decimal digits of s accumulated into limbs
RECURSIVE Accumulate(_, _, _, _)
Accumulate(s, l, over, bits) ==
    IF s = <<>> \/ ~IsDigit(Head(s)) THEN [limbs |-> l, over |-> over]
    ELSE LET m == MulAdd(l, DigitVal(Head(s)))
         IN  Accumulate(Tail(s), m.limbs, over \/ TooWide(m.limbs, m.carry, bits), bits)

RECURSIVE SkipSpace(_)
SkipSpace(s) == IF s # <<>> /\ IsSpace(Head(s)) THEN SkipSpace(Tail(s)) ELSE s

\* the low 32 bits of a limb value, as <<high half, low half>>
Low32(l) == <<l[2], l[1]>>

\* two's complement negation modulo 2^32
Neg32(u) ==
    IF u = <<0, 0>> THEN u
    ELSE <<(LimbBase - 1 - u[1] + (IF u[2] = 0 THEN 1 ELSE 0)) % LimbBase,
           (LimbBase - u[2]) % LimbBase>>

\* uint32_t x = std::stoul(s): white space, an optional sign, decimal digits;
\* anything after the digits is ignored.  No digit: std::invalid_argument;
\* more than ULONG_MAX: std::out_of_range.  The result is then narrowed to 32 bits.
stoul(s, bits) ==
    LET t == SkipSpace(s)
        signed == t # <<>> /\ Head(t) \in {"+", "-"}
        neg == t # <<>> /\ Head(t) = "-"
        d == IF signed THEN Tail(t) ELSE t
        acc == Accumulate(d, ZeroLimbs, FALSE, bits)
    IN  IF d = <<>> \/ ~IsDigit(Head(d)) THEN [throws |-> TRUE, val |-> <<0, 0>>]
        ELSE IF acc.over THEN [throws |-> TRUE, val |-> <<0, 0>>]
        ELSE [throws |-> FALSE,
              val |-> IF neg THEN Neg32(Low32(acc.limbs)) ELSE Low32(acc.limbs)]

U32Zero == <<0, 0>>

\* --x on a uint32_t
U32Dec(u) ==
    IF u[2] > 0 THEN <<u[1], u[2] - 1>>
    ELSE IF u[1] > 0 THEN <<u[1] - 1, LimbBase - 1>>
    ELSE <<LimbBase - 1, LimbBase - 1>>

\* ------------------------------------------------- case_insensitive_equals

ToLower(c) ==
    IF c \in Range(UpperChars)
    THEN LowerChars[CHOOSE i \in DOMAIN UpperChars : UpperChars[i] = c]
    ELSE c

\* case_insensitive_equals without the folding of 'A'..'Z'
case_sensitive_equals(a, b) ==
    /\ Len(a) = Len(b)
    /\ \A i \in DOMAIN a : a[i] = b[i]

case_insensitive_equals(a, b) ==
    /\ Len(a) = Len(b)
    /\ \A i \in DOMAIN a : ToLower(a[i]) = ToLower(b[i])

ContentLengthName ==
    <<"C","o","n","t","e","n","t","-","L","e","n","g","t","h">>

\* ------------------------------------------------- incoming_request

\* incoming_request(): the state after construction and after reset()
InitialRequest ==
    [mode |-> "RequestLine", content_remains |-> U32Zero, line |-> <<>>,
     method |-> <<>>, url |-> <<>>, headers |-> <<>>, body |-> <<>>]

\* the request part of the object, which is what the callback is handed
Request(st) ==
    [method |-> st.method, url |-> st.url, headers |-> st.headers, body |-> st.body]

\* the clean-up of one header value at the blank line
RECURSIVE FoldFrom(_, _)
FoldFrom(v, value) ==
    IF v = <<>> THEN value
    ELSE IF Head(v) = SP \/ Head(v) = HT
         THEN IF value # <<>> /\ value[Len(value)] # SP
              THEN FoldFrom(Tail(v), Append(value, SP))
              ELSE FoldFrom(Tail(v), value)
         ELSE FoldFrom(Tail(v), Append(value, Head(v)))

\* FoldValue without the removal of the trailing space
FoldValueKeepsTrailingSpace(v) == FoldFrom(v, <<>>)

FoldValue(v) ==
    LET value == FoldFrom(v, <<>>)
    IN  IF value # <<>> /\ value[Len(value)] = SP
        THEN SubSeq(value, 1, Len(value) - 1)
        ELSE value

FoldHeaders(hs) == [i \in DOMAIN hs |-> <<hs[i][1], FoldValue(hs[i][2])>>]

\* the scan for Content-Length: every matching header is converted, in order,
\* so the first one that throws ends the scan and otherwise the last one wins
RECURSIVE ScanContentLength(_, _, _)
ScanContentLength(hs, cur, bits) ==
    IF hs = <<>> THEN [throws |-> FALSE, val |-> cur]
    ELSE IF case_insensitive_equals(Head(hs)[1], ContentLengthName)
         THEN LET r == stoul(Head(hs)[2], bits)
              IN  IF r.throws THEN [throws |-> TRUE, val |-> cur]
                  ELSE ScanContentLength(Tail(hs), r.val, bits)
         ELSE ScanContentLength(Tail(hs), cur, bits)

\* "method SP url SP version"
RequestLine(st, line) ==
    LET i1 == Find(line, SP, 1)
        i2 == IF i1 = 0 THEN 0 ELSE Find(line, SP, i1 + 1)
        method == SubSeq(line, 1, i1 - 1)
        url == IF i2 = 0 THEN From(line, i1 + 1) ELSE SubSeq(line, i1 + 1, i2 - 1)
        \* substr(npos + 1) is substr(0): the whole line
        version == IF i2 = 0 THEN line ELSE From(line, i2 + 1)
    IN  IF i1 = 0 THEN [st |-> st, ev |-> "fail"]
        ELSE IF ~StartsWith(version, <<"H","T","T","P","/","1",".">>)
             THEN [st |-> [st EXCEPT !.method = method, !.url = url], ev |-> "fail"]
        ELSE [st |-> [st EXCEPT !.method = method, !.url = url,
                                !.mode = "HeaderLine", !.line = <<>>],
              ev |-> "none"]

\* the blank line going on to Body mode whatever the count
BlankHeaderLineNoFinish(st, bits) ==
    LET folded == FoldHeaders(st.headers)
        cl == ScanContentLength(folded, st.content_remains, bits)
        s1 == [st EXCEPT !.headers = folded, !.content_remains = cl.val]
    IN  IF cl.throws THEN [st |-> s1, ev |-> "throw"]
        ELSE [st |-> [s1 EXCEPT !.content_remains = cl.val, !.mode = "Body", !.line = <<>>],
              ev |-> "none"]

\* the empty line between headers and body
BlankHeaderLine(st, bits) ==
    LET folded == FoldHeaders(st.headers)
        cl == ScanContentLength(folded, st.content_remains, bits)
        s1 == [st EXCEPT !.headers = folded, !.content_remains = cl.val]
    IN  IF cl.throws THEN [st |-> s1, ev |-> "throw"]
        ELSE LET s2 == [s1 EXCEPT !.content_remains = cl.val, !.mode = "Body",
                                  !.line = <<>>]
             IN  [st |-> s2, ev |-> IF cl.val = U32Zero THEN "finish" ELSE "none"]

\* a line without a colon taken as a header with an empty value, and a
\* continuation line with no header before it ignored
HeaderLineLenient(st, line) ==
    IF line[1] = SP \/ line[1] = HT
    THEN IF st.headers = <<>> THEN [st |-> [st EXCEPT !.line = <<>>], ev |-> "none"]
         ELSE LET n == Len(st.headers)
              IN  [st |-> [st EXCEPT !.headers[n][2] = @ \o line, !.line = <<>>],
                   ev |-> "none"]
    ELSE LET i == Find(line, ":", 1)
         IN  IF i = 0
             THEN [st |-> [st EXCEPT !.headers = Append(@, <<line, <<>>>>), !.line = <<>>],
                   ev |-> "none"]
             ELSE [st |-> [st EXCEPT
                              !.headers = Append(@, <<SubSeq(line, 1, i - 1),
                                                      From(line, i + 1)>>),
                              !.line = <<>>],
                   ev |-> "none"]

\* "name: [space] value" or "[space] continuation-value"
HeaderLine(st, line) ==
    IF line[1] = SP \/ line[1] = HT
    THEN IF st.headers = <<>> THEN [st |-> st, ev |-> "fail"]
         ELSE LET n == Len(st.headers)
              IN  [st |-> [st EXCEPT !.headers[n][2] = @ \o line, !.line = <<>>],
                   ev |-> "none"]
    ELSE LET i == Find(line, ":", 1)
         IN  IF i = 0 THEN [st |-> st, ev |-> "fail"]
             ELSE [st |-> [st EXCEPT
                              !.headers = Append(@, <<SubSeq(line, 1, i - 1),
                                                      From(line, i + 1)>>),
                              !.line = <<>>],
                   ev |-> "none"]

\* One iteration of the loop of parse_bytes, up to the call of on_finish:
\* ev is "none", "finish" (on_finish is called with st), "fail" (return false),
\* "throw" (std::stoul threw) or "assert" (the assertion of Body mode failed).
ParseByte(st, c, bits) ==
    IF st.mode \in {"RequestLine", "HeaderLine"}
    THEN LET l1 == Append(st.line, c)
             n == Len(l1)
         IN  IF n >= 2 /\ l1[n - 1] = CR /\ l1[n] = LF
             THEN LET line == SubSeq(l1, 1, n - 2)
                      s0 == [st EXCEPT !.line = line]
                  IN  IF st.mode = "RequestLine"
                      THEN IF line = <<>>
                           THEN [st |-> s0, ev |-> "none"]
                           ELSE RequestLine(s0, line)
                      ELSE IF line = <<>>
                           THEN BlankHeaderLine(s0, bits)
                           ELSE HeaderLine(s0, line)
             ELSE [st |-> [st EXCEPT !.line = l1], ev |-> "none"]
    ELSE IF st.content_remains = U32Zero THEN [st |-> st, ev |-> "assert"]
    ELSE LET s1 == [st EXCEPT !.body = Append(@, c),
                              !.content_remains = U32Dec(@)]
         IN  [st |-> s1,
              ev |-> IF s1.content_remains = U32Zero THEN "finish" ELSE "none"]

\* reset() after on_finish returns (and the clearing of line that follows it)
AfterFinish(st) == InitialRequest

\* parse_bytes up to its first event: the bytes are consumed until on_finish is
\* called, the function returns false, an exception leaves it, or they run out
\* (the loop over bytes[lo..hi], split in halves to keep the evaluation shallow;
\* at is the position of the byte at which the loop was left)
RECURSIVE ParseRange(_, _, _, _, _)
RECURSIVE ParseRest(_, _, _, _, _)

ParseAt(r, at) == [st |-> r.st, ev |-> r.ev, at |-> at]

ParseRange(st, bytes, lo, hi, bits) ==
    IF lo > hi THEN [st |-> st, ev |-> "none", at |-> hi]
    ELSE IF lo = hi THEN ParseAt(ParseByte(st, bytes[lo], bits), lo)
    ELSE ParseRest(ParseRange(st, bytes, lo, (lo + hi) \div 2, bits),
                   bytes, ((lo + hi) \div 2) + 1, hi, bits)

\* the second half of a range, unless the loop was left in the first half
ParseRest(a, bytes, lo, hi, bits) ==
    IF a.ev # "none" THEN a ELSE ParseRange(a.st, bytes, lo, hi, bits)

ParseLeft(r, bytes) ==
    [st |-> r.st, rest |-> SubSeq(bytes, r.at + 1, Len(bytes)), ev |-> r.ev]

ParseRun(st, bytes, bits) == ParseLeft(ParseRange(st, bytes, 1, Len(bytes), bits), bytes)

\* how a parse_bytes call ends when its loop is left without on_finish
ParseEnd(r, got) ==
    [st |-> r.st, got |-> got,
     outcome |-> CASE r.ev = "none" -> "ok"
                   [] r.ev = "fail" -> "fail"
                   [] r.ev = "throw" -> "throw"
                   [] OTHER -> "assert"]

\* parse_bytes with a line buffer local to the call instead of the member
RECURSIVE parse_bytes_local_line(_, _, _, _)
RECURSIVE LocalLineResume(_, _, _)
parse_bytes_local_line(st, bytes, got, bits) ==
    LocalLineResume(ParseRun([st EXCEPT !.line = <<>>], bytes, bits), got, bits)

LocalLineResume(r, got, bits) ==
    IF r.ev = "finish"
    THEN parse_bytes_local_line(AfterFinish(r.st), r.rest, Append(got, Request(r.st)), bits)
    ELSE ParseEnd(r, got)

\* parse_bytes(begin, count, on_finish) with an on_finish that records the
\* request: the state, the requests recorded and how the call ended
RECURSIVE parse_bytes(_, _, _, _)
RECURSIVE ParseResume(_, _, _)
parse_bytes(st, bytes, got, bits) == ParseResume(ParseRun(st, bytes, bits), got, bits)

\* on_finish returns, reset(), and the loop goes on with the next byte
ParseResume(r, got, bits) ==
    IF r.ev = "finish"
    THEN parse_bytes(AfterFinish(r.st), r.rest, Append(got, Request(r.st)), bits)
    ELSE ParseEnd(r, got)

\* ------------------------------------------------- response::~response

\* a response as constructed: 200 OK, no header, no body
DefaultResponse == [code |-> 200, message |-> <<"O", "K">>, headers |-> <<>>, body |-> <<>>]

HeaderBytes(kv) == kv[1] \o <<":", SP>> \o kv[2] \o CRLF

\* the message without the Content-Length header
SerializeNoLength(r) ==
    <<"H","T","T","P","/","1",".","1",SP>> \o to_string(r.code) \o <<SP>> \o r.message \o CRLF
    \o Concat([i \in DOMAIN r.headers |-> HeaderBytes(r.headers[i])])
    \o CRLF \o r.body

\* the message built by the destructor
Serialize(r) ==
    <<"H","T","T","P","/","1",".","1",SP>> \o to_string(r.code) \o <<SP>> \o r.message \o CRLF
    \o Concat([i \in DOMAIN r.headers |-> HeaderBytes(r.headers[i])])
    \o ContentLengthName \o <<":", SP>> \o to_string(Len(r.body)) \o CRLF
    \o CRLF \o r.body

\* an empty std::shared_ptr< message >
NoMessage == 0

\* a message as made by std::make_shared< message >()
NewMessage == [ready |-> FALSE, data |-> <<>>, next |-> NoMessage]

\* the state of the variables of a part of the model that a specification
\* does not use; the server is the build of the #else branches (MSG_DONTWAIT,
\* int sockets), where unsigned long has 64 bits
ParserIdle ==
    /\ plan = <<>> /\ wire = <<>> /\ pos = 0 /\ ulong_bits = 64
    /\ incoming_request = InitialRequest /\ delivered = <<>> /\ outcome = "ok"

ResponseIdle == response = DefaultResponse /\ slot = NewMessage

INVALID_SOCKET == -1

\* the descriptor of the UDP socket made for wake_socket
WakeSocket == 0

\* a server in its loop with no client and nobody calling stop
ServerIdle ==
    /\ lpc = "idle" /\ mutex = "free" /\ clients = <<>> /\ message = <<>>
    /\ handle = <<>> /\ read_fds = {} /\ write_fds = {} /\ turn = 0 /\ lrest = <<>>
    /\ wake_pending = 0 /\ arrivals = 0 /\ sent = <<>> /\ order = <<>>
    /\ quit_flag = FALSE /\ running = TRUE /\ wake_socket = WakeSocket
    /\ stop_pc = <<>>

\* tweak's internal data after construction
TweakIdle == polls = <<>> /\ state_serial = U32Zero /\ state = <<>> /\ answered = {}

\* ------------------------------------------------- the byte streams fed

MaxChunk == 3        \* longest chunk of one parse_bytes call (besides "the rest")
MaxHeaderLines == 2  \* header lines of the last message of a stream
MaxPipelined == 1    \* complete requests in front of the last message

Min(a, b) == IF a < b THEN a ELSE b

SeqsUpTo(S, n) == UNION { [1..k -> S] : k \in 0..n }

RL_Get == <<"G", "E", "T", SP, "/", SP, "H", "T", "T", "P", "/", "1", ".", "1">>
RL_Post == <<"P", "O", "S", "T", SP, "/", "a", SP, "H", "T", "T", "P", "/", "1", ".", "0">>
RL_NoSecondSpace == <<"G", "E", "T", SP, "/">>
RL_NoSpace == <<"G", "E", "T">>
RL_VersionFirst == <<"H", "T", "T", "P", "/", "1", ".", "1", SP, "x">>
RL_Http2 == <<"G", "E", "T", SP, "/", SP, "H", "T", "T", "P", "/", "2">>

RequestLines ==
    {RL_Get, RL_Post, RL_NoSecondSpace, RL_NoSpace, RL_VersionFirst, RL_Http2}

H_X == <<"X", "-", "F", "o", "o", ":", SP, "a">>
H_Fold == <<"Y", ":", HT, "c", SP, SP, "d", SP>>
H_Cont == <<SP, HT, "b">>
H_NoColon == <<"B", "a", "d">>
H_CL2 == <<"C", "o", "n", "t", "e", "n", "t", "-", "L", "e", "n", "g", "t", "h", ":", SP, "2">>
H_cl2 == <<"c", "o", "n", "t", "e", "n", "t", "-", "l", "e", "n", "g", "t", "h", ":", SP, "2">>
H_CLabc == <<"C", "o", "n", "t", "e", "n", "t", "-", "L", "e", "n", "g", "t", "h", ":", SP, "a", "b", "c">>
H_CLempty == <<"C", "o", "n", "t", "e", "n", "t", "-", "L", "e", "n", "g", "t", "h", ":">>
H_CL2x == <<"C", "o", "n", "t", "e", "n", "t", "-", "L", "e", "n", "g", "t", "h", ":", SP, "2", "x">>
H_CLbig == <<"C", "o", "n", "t", "e", "n", "t", "-", "L", "e", "n", "g", "t", "h", ":", SP, "4", "2", "9", "4", "9", "6", "7", "2", "9", "6">>

HeaderLines ==
    {H_X, H_Fold, H_Cont, H_NoColon, H_CL2, H_cl2, H_CLabc, H_CLempty, H_CL2x, H_CLbig}

Bodies == {<<>>, <<"h", "i">>}

\* a message as the client writes it: blank lines in front, the request line,
\* the header lines, the blank line and the body
Message(lead, rl, hs, body) == [lead |-> lead, rl |-> rl, hs |-> hs, body |-> body]

MessageBytes(m) ==
    m.lead \o m.rl \o CRLF \o Concat([i \in DOMAIN m.hs |-> m.hs[i] \o CRLF])
           \o CRLF \o m.body

\* the complete requests a stream may start with
PipelinedMessages == { Message(CRLF, RL_Post, <<H_CL2>>, <<"h", "i">>) }

\* the header lines that may follow the first one of a message
MoreHeaderLines == {H_X, H_Cont, H_cl2}

HeaderBlocks ==
    {<<>>} \cup { <<h>> \o t : h \in HeaderLines,
                               t \in SeqsUpTo(MoreHeaderLines, MaxHeaderLines - 1) }

LastMessages ==
    { Message(<<>>, rl, <<>>, <<>>) : rl \in RequestLines }
    \cup { Message(<<>>, RL_Get, hs, b) : hs \in HeaderBlocks, b \in Bodies }

Plans == { p \o <<m>> : p \in SeqsUpTo(PipelinedMessages, MaxPipelined), m \in LastMessages }

PlanBytes(p) == Concat([i \in DOMAIN p |-> MessageBytes(p[i])])

ParseInit ==
    /\ ResponseIdle /\ ServerIdle /\ TweakIdle
    /\ plan \in Plans
    /\ wire = PlanBytes(plan)
    /\ pos = 0
    /\ ulong_bits \in {32, 64}
    /\ incoming_request = InitialRequest
    /\ delivered = <<>>
    /\ outcome = "ok"

\* what a call leaves behind: the object, the requests recorded, the result
Returned(r) ==
    /\ incoming_request' = r.st
    /\ delivered' = delivered \o r.got
    /\ outcome' = r.outcome

\* One call r = parse_bytes(buf, k, on_finish) on the next k bytes of the
\* stream.  As in server::listen, no call follows one that did not return true.
Feed(k) ==
    /\ outcome = "ok"
    /\ pos + k <= Len(wire)
    /\ Returned(parse_bytes(incoming_request, SubSeq(wire, pos + 1, pos + k), <<>>,
                            ulong_bits))
    /\ pos' = pos + k
    /\ UNCHANGED <<plan, wire, ulong_bits, rvars, svars, tvars>>

\* chunks of every length up to MaxChunk, or the whole stream in a single call
ParseNext ==
    \E k \in (1..MaxChunk) \cup (IF pos = 0 THEN {Len(wire)} ELSE {}) : Feed(k)

SpecParse == ParseInit /\ [][ParseNext]_vars

\* ------------------------------------------------- the wire grammar
\* What a message is according to the wire format, written from the grammar
\* and not from the parser: the claims about the parser are stated against it.

\* byte offsets in the stream, of the end of message i, of its head (request
\* line, header lines and blank line) and of its request line
MsgEnd(i) == Len(PlanBytes(SubSeq(plan, 1, i)))
HeadEnd(i) == MsgEnd(i) - Len(plan[i].body)
RequestLineEnd(i) == MsgEnd(i - 1) + Len(plan[i].lead) + Len(plan[i].rl) + 2

\* the positions of the spaces of a line, in order
RefSpaces(l) == { i \in DOMAIN l : l[i] = SP }

\* method SP url SP version, the version beginning with HTTP/1.
RefRequestLineForm(l) ==
    \E i1, i2 \in RefSpaces(l) :
        /\ i1 < i2
        /\ \A j \in RefSpaces(l) : j >= i1 /\ (j > i1 => j >= i2)
        /\ StartsWith(From(l, i2 + 1), <<"H","T","T","P","/","1",".">>)

RefMethod(l) == SubSeq(l, 1, Find(l, SP, 1) - 1)
RefUrl(l) == SubSeq(l, Find(l, SP, 1) + 1, Find(l, SP, Find(l, SP, 1) + 1) - 1)

RefIsContinuation(l) == l # <<>> /\ l[1] \in {SP, HT}

RefHeaderLinesOK(hs) ==
    \A k \in DOMAIN hs :
        IF RefIsContinuation(hs[k]) THEN k > 1 ELSE ":" \in Range(hs[k])

\* the (name, value) pairs of the header lines, continuation lines joined to
\* the value they continue
RECURSIVE RefRawFrom(_, _)
RefRawFrom(hs, acc) ==
    IF hs = <<>> THEN acc
    ELSE LET l == Head(hs)
             c == Find(l, ":", 1)
         IN  IF RefIsContinuation(l)
             THEN RefRawFrom(Tail(hs), [acc EXCEPT ![Len(acc)][2] = @ \o l])
             ELSE RefRawFrom(Tail(hs), Append(acc, <<SubSeq(l, 1, c - 1), From(l, c + 1)>>))

RefRawHeaders(hs) == RefRawFrom(hs, <<>>)

\* the words of a value: its maximal runs of characters other than space and tab
RECURSIVE RefWordsFrom(_, _, _)
RefWordsFrom(v, cur, acc) ==
    IF v = <<>> THEN IF cur = <<>> THEN acc ELSE Append(acc, cur)
    ELSE IF Head(v) \in {SP, HT}
         THEN RefWordsFrom(Tail(v), <<>>, IF cur = <<>> THEN acc ELSE Append(acc, cur))
         ELSE RefWordsFrom(Tail(v), Append(cur, Head(v)), acc)

RefWords(v) == RefWordsFrom(v, <<>>, <<>>)

RECURSIVE RefJoin(_)
RefJoin(ws) ==
    IF ws = <<>> THEN <<>>
    ELSE IF Len(ws) = 1 THEN ws[1]
    ELSE ws[1] \o <<SP>> \o RefJoin(Tail(ws))

RefIsDecimal(v) == v # <<>> /\ \A i \in DOMAIN v : IsDigit(v[i])

RECURSIVE RefStripZeros(_)
RefStripZeros(d) == IF Len(d) > 1 /\ Head(d) = "0" THEN RefStripZeros(Tail(d)) ELSE d

\* a decimal numeral compared with a number, digit by digit
RefDecEq(d, n) == RefStripZeros(d) = to_string(n)
RefDecGt(d, n) ==
    LET a == RefStripZeros(d)
        b == to_string(n)
    IN  \/ Len(a) > Len(b)
        \/ /\ Len(a) = Len(b)
           /\ \E k \in DOMAIN a : /\ SubSeq(a, 1, k - 1) = SubSeq(b, 1, k - 1)
                                  /\ DigitVal(a[k]) > DigitVal(b[k])

RefIsContentLength(name) ==
    [i \in DOMAIN name |-> ToLower(name[i])]
        = <<"c","o","n","t","e","n","t","-","l","e","n","g","t","h">>

\* the values of the Content-Length headers of a message, white space trimmed
RefContentLengths(m) ==
    LET raw == RefRawHeaders(m.hs)
    IN  { RefJoin(RefWords(raw[k][2])) : k \in { j \in DOMAIN raw : RefIsContentLength(raw[j][1]) } }

RefHeadOK(m) == RefRequestLineForm(m.rl) /\ RefHeaderLinesOK(m.hs)

\* "complete": a request, all of it in the stream; "incomplete": a request whose
\* body is not all there yet; "reject": not a request; "other": a request whose
\* length the grammar does not settle (Content-Length malformed or ambiguous,
\* or more bytes than the body)
RefClass(m) ==
    IF ~RefHeadOK(m) THEN "reject"
    ELSE LET cls == RefContentLengths(m)
         IN  IF cls = {} THEN (IF m.body = <<>> THEN "complete" ELSE "other")
             ELSE IF \E d \in cls : ~RefIsDecimal(d) THEN "other"
             ELSE IF \E d \in cls : RefDecEq(d, Len(m.body))
                  THEN (IF \A d \in cls : RefDecEq(d, Len(m.body)) THEN "complete" ELSE "other")
             ELSE IF \A d \in cls : RefDecGt(d, Len(m.body)) THEN "incomplete"
             ELSE "other"

\* a Content-Length header whose value is not a decimal number
RefMalformedContentLength(m) ==
    RefHeadOK(m) /\ \E d \in RefContentLengths(m) : ~RefIsDecimal(d)

\* ------------------------------------------------- claims about the parser

\* every message of the stream is a request by the grammar, all of it or a
\* first part of it
AllRequests ==
    \A i \in DOMAIN plan : RefClass(plan[i]) \in {"complete", "incomplete"}

\* C3: on_finish is called exactly once for each request that has been received
\* in full, in stream order, never for a request that is still incomplete and
\* never for the request at which parse_bytes returned false.
C3_OncePerRequest ==
    /\ AllRequests =>
          /\ Len(delivered) =
                Cardinality({ i \in DOMAIN plan :
                                RefClass(plan[i]) = "complete" /\ MsgEnd(i) <= pos })
          /\ \A k \in DOMAIN delivered :
                /\ delivered[k].method = RefMethod(plan[k].rl)
                /\ delivered[k].body = plan[k].body
    /\ outcome = "fail" => Len(delivered) < Len(plan)

\* C4: whatever the chunks, after every call the requests handed to on_finish,
\* the result and the parser state are those of a single parse_bytes call on
\* the bytes passed so far.
C4_ChunkingIndependent ==
    LET r == parse_bytes(InitialRequest, SubSeq(wire, 1, pos), <<>>, ulong_bits)
    IN  /\ delivered = r.got
        /\ outcome = r.outcome
        /\ incoming_request = r.st

\* a call has ended between the CR and the LF of a header line of the second
\* of two pipelined requests, the first one delivered
C4_Witness ==
    /\ 0 < pos /\ pos < Len(wire) /\ wire[pos] = CR /\ wire[pos + 1] = LF
    /\ Len(delivered) = 1
    /\ incoming_request.mode = "HeaderLine" /\ Len(incoming_request.line) > 1

\* a well-formed message with one explicit decimal Content-Length: the request
\* line has exactly two spaces, every header line is "Name: value", and the
\* bytes of the body in the stream are no more than the length announced
RefWellFormed(m) ==
    /\ RefRequestLineForm(m.rl) /\ Cardinality(RefSpaces(m.rl)) = 2
    /\ RefMethod(m.rl) # <<>> /\ RefUrl(m.rl) # <<>>
    /\ \A k \in DOMAIN m.hs :
          LET c == Find(m.hs[k], ":", 1)
          IN  /\ ~RefIsContinuation(m.hs[k])
              /\ c > 1 /\ Len(m.hs[k]) > c /\ m.hs[k][c + 1] = SP
    /\ Cardinality({ k \in DOMAIN m.hs : RefIsContentLength(SubSeq(m.hs[k], 1, Find(m.hs[k], ":", 1) - 1)) }) = 1
    /\ \A d \in RefContentLengths(m) :
          RefIsDecimal(d) /\ (RefDecEq(d, Len(m.body)) \/ RefDecGt(d, Len(m.body)))

\* the header list of a well-formed message: names and values as written
RefHeaderList(m) ==
    [k \in DOMAIN m.hs |->
        LET c == Find(m.hs[k], ":", 1)
        IN  <<SubSeq(m.hs[k], 1, c - 1), From(m.hs[k], c + 2)>>]

\* C5: a well-formed request with an explicit decimal Content-Length is
\* delivered once its last byte is in, with the method, the url, the header
\* list in wire order and a body of exactly Content-Length bytes, as sent.
C5_RoundTrip ==
    \A i \in DOMAIN plan :
        RefWellFormed(plan[i]) =>
            /\ (pos >= MsgEnd(i) /\ RefClass(plan[i]) = "complete") => Len(delivered) >= i
            /\ Len(delivered) >= i =>
                  /\ delivered[i].method = RefMethod(plan[i].rl)
                  /\ delivered[i].url = RefUrl(plan[i].rl)
                  /\ delivered[i].headers = RefHeaderList(plan[i])
                  /\ \A d \in RefContentLengths(plan[i]) : RefDecEq(d, Len(delivered[i].body))
                  /\ delivered[i].body = SubSeq(plan[i].body, 1, Len(delivered[i].body))

\* C7: a request line that is not blank and not of the form method SP url SP
\* version, the version beginning with HTTP/1., makes parse_bytes return false,
\* and no request is delivered for it.
C7_BadRequestLineFails ==
    \A i \in DOMAIN plan :
        (pos >= RequestLineEnd(i) /\ plan[i].rl # <<>> /\ ~RefRequestLineForm(plan[i].rl))
            => (outcome = "fail" /\ Len(delivered) < i)

\* C8: a Content-Length that is not a decimal number counts as zero: once the
\* blank line is in, parse_bytes has returned true and the request has been
\* delivered with an empty body.
C8_MalformedContentLengthIsZero ==
    \A i \in DOMAIN plan :
        (pos >= HeadEnd(i) /\ RefMalformedContentLength(plan[i]))
            => (outcome = "ok" /\ Len(delivered) >= i /\ delivered[i].body = <<>>)

\* C10: every header value handed to the callback is the value of the wire,
\* continuation lines included, with each run of spaces and tabs turned into a
\* single space and the leading and trailing runs removed: it has no tab, no
\* two spaces in a row, no space at either end, and the same words.
C10_FoldedHeaders ==
    \A i \in DOMAIN delivered :
        RefHeaderLinesOK(plan[i].hs) =>
            LET raw == RefRawHeaders(plan[i].hs)
                hs == delivered[i].headers
            IN  /\ Len(hs) = Len(raw)
                /\ \A k \in DOMAIN hs :
                      LET v == hs[k][2]
                      IN  /\ hs[k][1] = raw[k][1]
                          /\ v = RefJoin(RefWords(raw[k][2]))
                          /\ HT \notin Range(v)
                          /\ \A j \in 1..(Len(v) - 1) : ~(v[j] = SP /\ v[j + 1] = SP)
                          /\ v # <<>> => (v[1] # SP /\ v[Len(v)] # SP)

\* X-Foo: a CRLF SP HT b CRLF and a blank line were delivered as X-Foo = "a b"
C10_Witness ==
    \E i \in DOMAIN delivered :
        /\ plan[i].hs = <<H_X, H_Cont>>
        /\ delivered[i].headers = << <<SubSeq(H_X, 1, 5), <<"a", SP, "b">>>> >>

\* C24: a request whose Content-Length headers all give the same decimal
\* number n, of any size, is delivered only when n bytes have come after its
\* blank line, and with a body of exactly n bytes, those bytes.
C24_ExactBodyLength ==
    \A i \in DOMAIN plan :
        (/\ RefHeadOK(plan[i])
         /\ Cardinality(RefContentLengths(plan[i])) = 1
         /\ \A d \in RefContentLengths(plan[i]) : RefIsDecimal(d)
         /\ Len(delivered) >= i)
            => /\ \A d \in RefContentLengths(plan[i]) : RefDecEq(d, Len(delivered[i].body))
               /\ pos >= HeadEnd(i) + Len(delivered[i].body)
               /\ delivered[i].body = SubSeq(plan[i].body, 1, Len(delivered[i].body))

\* the parser has nothing of a request: RequestLine mode, no method, url,
\* header, body or line, no body byte awaited
RefNothingParsed(st) ==
    /\ st.mode = "RequestLine"
    /\ st.method = <<>> /\ st.url = <<>> /\ st.headers = <<>> /\ st.body = <<>>
    /\ st.line = <<>>
    /\ st.content_remains = <<0, 0>>

\* C26: no call of parse_bytes ends in the failed assertion of Body mode, and
\* between calls a parser in Body mode awaits at least one byte; a request
\* without Content-Length header is delivered, with an empty body, once its
\* blank line is in; the byte that ends the blank line leaves the parser
\* either in Body mode awaiting bytes, nothing delivered, or with one more
\* request delivered; and a byte that completes a request leaves the parser
\* in RequestLine mode with nothing of a request in it.
C26_BodyAssertHolds ==
    /\ [](/\ outcome # "assert"
          /\ incoming_request.mode = "Body" => incoming_request.content_remains # <<0, 0>>
          /\ \A i \in DOMAIN plan :
                (/\ RefHeadOK(plan[i])
                 /\ RefContentLengths(plan[i]) = {}
                 /\ pos >= HeadEnd(i))
                    => (Len(delivered) >= i /\ delivered[i].body = <<>>))
    /\ [][pos' = pos + 1 =>
             /\ (/\ incoming_request.mode = "HeaderLine"
                 /\ incoming_request.line = <<CR>>
                 /\ wire[pos'] = LF
                 /\ outcome' = "ok")
                   => \/ /\ incoming_request'.mode = "Body"
                         /\ incoming_request'.content_remains # <<0, 0>>
                         /\ delivered' = delivered
                      \/ /\ Len(delivered') = Len(delivered) + 1
                         /\ delivered'[Len(delivered')].body = <<>>
             /\ Len(delivered') > Len(delivered)
                   => /\ Len(delivered') = Len(delivered) + 1
                      /\ RefNothingParsed(incoming_request')
         ]_vars

\* a request with a body of two bytes and a request without header were
\* delivered, the second at its blank line, the last byte of the stream
C26_Witness ==
    /\ pos = Len(wire)
    /\ Len(delivered) = 2
    /\ delivered[1].body = <<"h", "i">>
    /\ delivered[2].headers = <<>> /\ delivered[2].body = <<>>
    /\ RefNothingParsed(incoming_request)

\* ------------------------------------------------- the Content-Length name
\* Requests whose only header is "<name>: 2", followed by the two body bytes
\* and by a second request, for names near "Content-Length".

CL_lower == <<"c","o","n","t","e","n","t","-","l","e","n","g","t","h">>
CL_upper == <<"C","O","N","T","E","N","T","-","L","E","N","G","T","H">>

\* the other case of a letter, written from the alphabet
SwapCase(c) ==
    IF \E i \in DOMAIN UpperChars : UpperChars[i] = c
    THEN LowerChars[CHOOSE i \in DOMAIN UpperChars : UpperChars[i] = c]
    ELSE IF \E i \in DOMAIN LowerChars : LowerChars[i] = c
         THEN UpperChars[CHOOSE i \in DOMAIN LowerChars : LowerChars[i] = c]
         ELSE c

\* spellings that differ from Content-Length in the case of letters only
CaseSpellings ==
    {ContentLengthName, CL_lower, CL_upper}
    \cup { [ContentLengthName EXCEPT ![i] = SwapCase(@)] : i \in DOMAIN ContentLengthName }

\* names that differ in a byte that is no letter ('-' is 0x2D: '_' is another
\* byte, CR is 0x0D = 0x2D without the bit 0x20, 'M' is 0x4D), or in length
OtherSpellings ==
    { [ContentLengthName EXCEPT ![8] = c] : c \in {"_", CR, "M"} }
    \cup { SubSeq(ContentLengthName, 1, 13), Append(ContentLengthName, "h"),
           Append(ContentLengthName, SP) }

Spellings == CaseSpellings \cup OtherSpellings

LengthTwo == <<":", SP, "2">>

NamedPlan(name) ==
    << Message(<<>>, RL_Post, <<name \o LengthTwo>>, <<"h", "i">>),
       Message(<<>>, RL_Get, <<>>, <<>>) >>

NamesInit ==
    /\ ResponseIdle /\ ServerIdle /\ TweakIdle
    /\ plan \in { NamedPlan(name) : name \in Spellings }
    /\ wire = PlanBytes(plan)
    /\ pos = 0
    /\ ulong_bits \in {32, 64}
    /\ incoming_request = InitialRequest
    /\ delivered = <<>>
    /\ outcome = "ok"

SpecNames == NamesInit /\ [][ParseNext]_vars

\* the name of the header line of the first request of the stream
PlanName == SubSeq(plan[1].hs[1], 1, Len(plan[1].hs[1]) - Len(LengthTwo))

\* a differs from b in the case of ASCII letters only (from the alphabet, not
\* from the comparison of the code)
RefSameButCase(a, b) ==
    /\ Len(a) = Len(b)
    /\ \A i \in DOMAIN a : a[i] = b[i] \/ (a[i] # SwapCase(a[i]) /\ SwapCase(a[i]) = b[i])

\* the requests without the header names
RefUnnamed(got) ==
    [k \in DOMAIN got |->
        [method |-> got[k].method, url |-> got[k].url, body |-> got[k].body,
         values |-> [j \in DOMAIN got[k].headers |-> got[k].headers[j][2]]]]

\* C11: a request whose header name differs from Content-Length only in the
\* case of ASCII letters is parsed, after every call, as the same bytes with
\* the name Content-Length are: the same requests with the same bodies are
\* delivered, as many body bytes are still awaited and the same body has been
\* collected; a name that differs in length or in a byte that is no letter is
\* not matched: the request is delivered at its blank line with an empty body.
C11_CaseInsensitiveLength ==
    IF RefSameButCase(PlanName, ContentLengthName)
    THEN LET canon == PlanBytes(NamedPlan(ContentLengthName))
             r == parse_bytes(InitialRequest, SubSeq(canon, 1, pos), <<>>, ulong_bits)
         IN  /\ RefUnnamed(delivered) = RefUnnamed(r.got)
             /\ outcome = r.outcome
             /\ incoming_request.mode = r.st.mode
             /\ incoming_request.content_remains = r.st.content_remains
             /\ incoming_request.body = r.st.body
             /\ pos >= MsgEnd(1) => (delivered # <<>> /\ delivered[1].body = <<"h", "i">>)
    ELSE /\ pos < HeadEnd(1) => delivered = <<>>
         /\ pos >= HeadEnd(1) => (delivered # <<>> /\ delivered[1].body = <<>>)

\* "CONTENT-LENGTH: 2" was honoured: the two body bytes were delivered as the
\* body and the second request was delivered after them
C11_Witness ==
    /\ PlanName = CL_upper
    /\ Len(delivered) = 2
    /\ delivered[1].body = <<"h", "i">>
    /\ delivered[2].method = <<"G", "E", "T">>

\* ------------------------------------------------- the header lines
\* One request whose header lines are drawn from lines with and without a
\* colon, with a colon in several places, and beginning with a space or a tab.

HL_TwoColons == <<"A", ":", "b", ":", "c">>
HL_ColonFirst == <<":", "v">>
HL_ColonLast == <<"N", ":">>
HL_TabFirst == <<HT, "c">>
HL_SpaceColon == <<SP, "a", ":", "b">>

LinesOfHeaders ==
    {H_X, H_Cont, H_NoColon, HL_TwoColons, HL_ColonFirst, HL_ColonLast, HL_TabFirst,
     HL_SpaceColon}

HeadersInit ==
    /\ ResponseIdle /\ ServerIdle /\ TweakIdle
    /\ plan \in { <<Message(<<>>, RL_Get, hs, <<>>)>> :
                     hs \in SeqsUpTo(LinesOfHeaders, MaxHeaderLines) }
    /\ wire = PlanBytes(plan)
    /\ pos = 0
    /\ ulong_bits \in {32, 64}
    /\ incoming_request = InitialRequest
    /\ delivered = <<>>
    /\ outcome = "ok"

SpecHeaders == HeadersInit /\ [][ParseNext]_vars

\* the byte offset in the stream of the end of header line k of message i
HeaderLineEnd(i, k) ==
    RequestLineEnd(i) + Len(Concat([j \in 1..k |-> plan[i].hs[j] \o CRLF]))

\* the header lines of the first message that are in, CRLF included
RefLinesIn == { k \in DOMAIN plan[1].hs : HeaderLineEnd(1, k) <= pos }

\* line k is no header line: it begins with a space or a tab and no line
\* before it gave a header, or it begins with another byte and has no colon
RefNoHeaderLine(hs, k) ==
    IF hs[k][1] \in {SP, HT}
    THEN \A j \in 1..(k - 1) : hs[j][1] \in {SP, HT}
    ELSE \A j \in DOMAIN hs[k] : hs[k][j] # ":"

\* the place of the first colon of a line
RefFirstColon(l) ==
    CHOOSE c \in DOMAIN l : l[c] = ":" /\ \A j \in 1..(c - 1) : l[j] # ":"

\* the headers as the lines give them: a line that begins with a space or a
\* tab is added whole to the value before it, another line is a name, the
\* first colon and a value
RECURSIVE RefPairs(_)
RefPairs(hs) ==
    IF hs = <<>> THEN <<>>
    ELSE LET before == RefPairs(SubSeq(hs, 1, Len(hs) - 1))
             l == hs[Len(hs)]
         IN  IF l[1] \in {SP, HT}
             THEN [before EXCEPT ![Len(before)][2] = @ \o l]
             ELSE Append(before, <<SubSeq(l, 1, RefFirstColon(l) - 1),
                                   SubSeq(l, RefFirstColon(l) + 1, Len(l))>>)

\* C21: once a header line that is no header line is in (no colon, or a space
\* or tab in front with no header to continue), parse_bytes has returned false
\* and nothing has been delivered; as long as every header line that is in is
\* one, parse_bytes has returned true, and before the blank line the headers
\* of the request are the lines that are in, each split at its first colon,
\* the lines with a space or tab in front added to the value before them; with
\* the blank line in, the request has been delivered with those names.
C21_HeaderLines ==
    IF \E k \in RefLinesIn : RefNoHeaderLine(plan[1].hs, k)
    THEN outcome = "fail" /\ delivered = <<>>
    ELSE /\ outcome = "ok"
         /\ (RequestLineEnd(1) <= pos /\ pos < HeadEnd(1)) =>
               /\ incoming_request.mode = "HeaderLine"
               /\ incoming_request.headers =
                     RefPairs(SubSeq(plan[1].hs, 1, Cardinality(RefLinesIn)))
               /\ delivered = <<>>
         /\ pos >= HeadEnd(1) =>
               /\ Len(delivered) = 1
               /\ Len(delivered[1].headers) = Len(RefPairs(plan[1].hs))
               /\ \A j \in DOMAIN delivered[1].headers :
                     delivered[1].headers[j][1] = RefPairs(plan[1].hs)[j][1]

\* "A:b:c" was taken as the header A with the value "b:c", and then the line
\* "Bad" made parse_bytes return false
C21_Witness ==
    /\ plan[1].hs = <<HL_TwoColons, H_NoColon>>
    /\ pos >= HeaderLineEnd(1, 2)
    /\ outcome = "fail"
    /\ incoming_request.headers = << <<<<"A">>, <<"b", ":", "c">>>> >>

\* ------------------------------------------------- a response destroyed

MaxResponseHeaders == 2   \* headers pushed onto a response

StatusCodes == {200, 404, 0, -1}
StatusMessages == {<<"O", "K">>, <<"N", "o", "t", SP, "F", "o", "u", "n", "d">>, <<>>}
ResponseHeaders ==
    { <<<<"X">>, <<"1">>>>, <<ContentLengthName, <<"9", "9">>>>, <<<<"a">>, <<>>>> }
ResponseBodies == {<<>>, <<"n", "o", "p", "e">>, <<"0", "1", "2", "3", "4", "5", "6", "7", "8", "9">>}

Responses ==
    [code : StatusCodes, message : StatusMessages,
     headers : SeqsUpTo(ResponseHeaders, MaxResponseHeaders), body : ResponseBodies]

\* a handler filled in a response whose message still exists
ResponseInit ==
    /\ ParserIdle /\ ServerIdle /\ TweakIdle
    /\ response \in Responses
    /\ slot = NewMessage

\* response::~response with a live message and a server whose wake_socket is
\* open: the message is written under the mutex, then the server is woken
DestroyResponse ==
    /\ ~slot.ready
    /\ mutex = "free"
    /\ slot' = [slot EXCEPT !.data = Serialize(response), !.ready = TRUE]
    /\ wake_pending' = wake_pending + 1
    /\ UNCHANGED <<response, pvars, lpc, clients, message, handle, read_fds, write_fds,
                   turn, lrest, arrivals, sent, order, mutex, stopvars, tvars>>

SpecResponse == ResponseInit /\ [][DestroyResponse]_vars

\* ------------------------------------------------- server::listen, one tick after another

MaxArrivals == 3      \* connections made plus complete requests sent, by all peers
MaxWake == 1          \* datagrams wake_socket holds before sendto drops one
Segment == 32         \* bytes send takes when it does not take them all
MaxStoppers == 2      \* threads that call server::stop

\* file descriptors of client sockets, addresses of messages, stopping threads
Sockets == 1..MaxArrivals
Slots == 1..MaxArrivals
Stoppers == 1..MaxStoppers

\* what recv can put in the buffer while the peers may send n more requests
REQ_Root == <<"G", "E", "T", SP, "/", SP, "H", "T", "T", "P", "/", "1", ".", "1", CR, LF, CR, LF>>
REQ_Other == <<"G", "E", "T", SP, "/", "x", SP, "H", "T", "T", "P", "/", "1", ".", "1", CR, LF, CR, LF>>
REQ_NoUrl == <<"G", "E", "T", CR, LF>>
REQ_BadLength == <<"G", "E", "T", SP, "/", SP, "H", "T", "T", "P", "/", "1", ".", "1", CR, LF, "C", "o", "n", "t", "e", "n", "t", "-", "L", "e", "n", "g", "t", "h", ":", SP, "a", "b", "c", CR, LF, CR, LF>>
RecvData(n) ==
    {[bytes |-> REQ_NoUrl, requests |-> 0], [bytes |-> REQ_BadLength, requests |-> 0]}
    \cup (IF n >= 1 THEN {[bytes |-> REQ_Root, requests |-> 1]} ELSE {})
    \cup (IF n >= 2 THEN {[bytes |-> REQ_Root \o REQ_Other, requests |-> 2]} ELSE {})

\* the handler of the test program, with shorter bodies and no header
HandleRequest(req) ==
    IF req.method = <<"G", "E", "T">> /\ req.url = <<"/">>
    THEN [code |-> 200, message |-> <<"O", "K">>, headers |-> <<>>, body |-> <<"h", "i">>]
    ELSE [code |-> 404, message |-> <<"N", "o", "t", SP, "F", "o", "u", "n", "d">>, headers |-> <<>>,
          body |-> <<"n", "o", "p", "e">>]

\* no response object for the message at an address
NoHandle == [pc |-> "none", response |-> DefaultResponse]

\* clients.emplace_back(); clients.back().socket = got
NewClient(got) ==
    [socket |-> got, first_message |-> NoMessage, incoming_request |-> InitialRequest]

\* a message and the messages after it, following next
RECURSIVE Chain(_, _)
Chain(msgs, s) == IF s = NoMessage THEN <<>> ELSE <<s>> \o Chain(msgs, msgs[s].next)

InChain(msgs, first, s) == \E j \in DOMAIN Chain(msgs, first) : Chain(msgs, first)[j] = s

\* the responses whose destructor holds shared_message
HoldersOf(hd) == { h \in DOMAIN hd : hd[h].pc \in {"locked", "wrote"} }
Holders == HoldersOf(handle)

\* a shared_ptr still leads to message s, from a client or from the
\* shared_message of a destructor that is running
OwnedIn(msgs, cl, holders, s) ==
    \/ \E i \in DOMAIN cl : InChain(msgs, cl[i].first_message, s)
    \/ \E h \in holders : InChain(msgs, h, s)

\* weak_message.lock() finds the message
Owned(s) == OwnedIn(message, clients, Holders, s)

\* the messages no shared_ptr leads to any more are destroyed
Collect(msgs, cl, holders) ==
    [s \in DOMAIN msgs |-> IF OwnedIn(msgs, cl, holders, s) THEN msgs[s] ELSE NewMessage]

\* a response whose destructor has returned is gone; its address is free
\* again once its message is destroyed too
Tidied(hd, msgs, cl) ==
    [s \in DOMAIN hd |->
        IF hd[s].pc = "done" /\ ~OwnedIn(msgs, cl, HoldersOf(hd), s) THEN NoHandle ELSE hd[s]]

\* addresses make_shared can return
FreeSlots == { s \in Slots : handle[s].pc = "none" }
NewSlot == CHOOSE s \in FreeSlots : \A t \in FreeSlots : s <= t

\* descriptors accept can return: the lowest one not open
FreeSockets == { c \in Sockets : \A i \in DOMAIN clients : clients[i].socket # c }
NewSocket == CHOOSE c \in FreeSockets : \A d \in FreeSockets : c <= d

\* the bytes a socket took, those of one message run together
Logged(log, s, bytes) ==
    IF log # <<>> /\ log[Len(log)].slot = s
    THEN [log EXCEPT ![Len(log)].bytes = @ \o bytes]
    ELSE Append(log, [slot |-> s, bytes |-> bytes])

\* the oldest request of a socket has been answered in full
Answered(log, ord) ==
    /\ log # <<>> /\ ord # <<>>
    /\ log[1].slot = ord[1].slot
    /\ log[1].bytes = Serialize(ord[1].response)

\* what is remembered of the sockets that still have a client
Kept(f, cl) ==
    [c \in DOMAIN f |-> IF \E i \in DOMAIN cl : cl[i].socket = c THEN f[c] ELSE <<>>]

\* the byte counts send may report for n bytes offered
SendCounts(n) == {n} \cup (IF n > Segment THEN {Segment} ELSE {})

ServerInit ==
    /\ ParserIdle /\ ResponseIdle /\ TweakIdle
    /\ lpc = "build" /\ mutex = "loop" /\ clients = <<>>
    /\ message = [s \in Slots |-> NewMessage]
    /\ handle = [s \in Slots |-> NoHandle]
    /\ read_fds = {} /\ write_fds = {} /\ turn = 0 /\ lrest = <<>>
    /\ wake_pending = 0 /\ arrivals = 0
    /\ quit_flag = FALSE /\ running = TRUE /\ wake_socket = WakeSocket
    /\ stop_pc = [t \in Stoppers |-> "idle"]
    /\ sent = [c \in Sockets |-> <<>>]
    /\ order = [c \in Sockets |-> <<>>]

\* Build with no client socket put in write_fds
BuildNoneWritable ==
    /\ lpc = "build"
    /\ ~quit_flag
    /\ read_fds' = { clients[i].socket : i \in DOMAIN clients }
    /\ write_fds' = {}
    /\ mutex' = "free"
    /\ lpc' = "select"
    /\ UNCHANGED <<pvars, rvars, tvars, stopvars, clients, message, handle, turn, lrest,
                   wake_pending, arrivals, sent, order>>

\* Build with every client socket put in write_fds
BuildAllWritable ==
    /\ lpc = "build"
    /\ ~quit_flag
    /\ read_fds' = { clients[i].socket : i \in DOMAIN clients }
    /\ write_fds' = { clients[i].socket : i \in DOMAIN clients }
    /\ mutex' = "free"
    /\ lpc' = "select"
    /\ UNCHANGED <<pvars, rvars, tvars, stopvars, clients, message, handle, turn, lrest,
                   wake_pending, arrivals, sent, order>>

\* while (!quit_flag): the fd sets are filled and the lock released
Build ==
    /\ lpc = "build"
    /\ ~quit_flag
    /\ read_fds' = { clients[i].socket : i \in DOMAIN clients }
    /\ write_fds' = { clients[i].socket : i \in
                        { j \in DOMAIN clients :
                            /\ clients[j].first_message # NoMessage
                            /\ message[clients[j].first_message].ready } }
    /\ mutex' = "free"
    /\ lpc' = "select"
    /\ UNCHANGED <<pvars, rvars, tvars, stopvars, clients, message, handle, turn, lrest, wake_pending,
                   arrivals, sent, order>>

\* select returns; a datagram is taken from wake_socket if it was readable
Select ==
    /\ lpc = "select"
    /\ \E got \in {0} \cup (IF wake_pending > 0 THEN {1} ELSE {}) :
           wake_pending' = wake_pending - got
    /\ lpc' = "accept"
    /\ UNCHANGED <<pvars, rvars, tvars, stopvars, mutex, clients, message, handle, read_fds, write_fds,
                   turn, lrest, arrivals, sent, order>>

\* a connection is accepted if one is waiting; then lock.lock()
Accept ==
    /\ lpc = "accept"
    /\ mutex = "free"
    /\ \/ /\ arrivals < MaxArrivals
          /\ arrivals' = arrivals + 1
          /\ clients' = Append(clients, NewClient(NewSocket))
       \/ UNCHANGED <<clients, arrivals>>
    /\ mutex' = "loop"
    /\ lpc' = IF clients' = <<>> THEN "reap" ELSE "read"
    /\ turn' = IF clients' = <<>> THEN 0 ELSE 1
    /\ UNCHANGED <<pvars, rvars, tvars, stopvars, message, handle, read_fds, write_fds, lrest,
                   wake_pending, sent, order>>

\* the loop over clients moves on
Advance ==
    /\ lpc' = IF turn < Len(clients) THEN "read" ELSE "reap"
    /\ turn' = IF turn < Len(clients) THEN turn + 1 ELSE 0

\* closesocket(c.socket); c.socket = -1
Closed(i) == [clients EXCEPT ![i].socket = INVALID_SOCKET]

\* the new message hung in front of the chain instead
LinkFirst(msgs, first, s) ==
    [first |-> s, msgs |-> [msgs EXCEPT ![s] = [NewMessage EXCEPT !.next = first]]]

\* on_finish, the walk to the end of the chain: the message made at s is hung
\* after the last message of the chain that starts at first
Link(msgs, first, s) ==
    IF first = NoMessage
    THEN [first |-> s, msgs |-> [msgs EXCEPT ![s] = NewMessage]]
    ELSE [first |-> first,
          msgs |-> [msgs EXCEPT ![s] = NewMessage,
                                ![Chain(msgs, first)[Len(Chain(msgs, first))]].next = s]]

\* on_finish calling handle_request with the mutex still locked
OnFinishKeepsLock(r, l, s) ==
    /\ message' = l.msgs
    /\ clients' = [clients EXCEPT ![turn].incoming_request = r.st,
                                  ![turn].first_message = l.first]
    /\ handle' = [handle EXCEPT ![s] = [pc |-> "held",
                                        response |-> HandleRequest(Request(r.st))]]
    /\ order' = [order EXCEPT ![clients[turn].socket] =
                    Append(@, [slot |-> s, response |-> HandleRequest(Request(r.st)),
                               overtook |-> FALSE])]
    /\ lrest' = r.rest
    /\ mutex' = "loop"
    /\ lpc' = "callback"
    /\ turn' = turn

\* on_finish up to the call of handle_request; the response it hands over is
\* destroyed by whichever thread ends up with it, at any time from now on
OnFinishLinked(r, l, s) ==
    /\ message' = l.msgs
    /\ clients' = [clients EXCEPT ![turn].incoming_request = r.st,
                                  ![turn].first_message = l.first]
    /\ handle' = [handle EXCEPT ![s] = [pc |-> "held",
                                        response |-> HandleRequest(Request(r.st))]]
    /\ order' = [order EXCEPT ![clients[turn].socket] =
                    Append(@, [slot |-> s, response |-> HandleRequest(Request(r.st)),
                               overtook |-> FALSE])]
    /\ lrest' = r.rest
    /\ mutex' = "free"
    /\ lpc' = "callback"
    /\ turn' = turn

OnFinish(r) == OnFinishLinked(r, Link(message, clients[turn].first_message, NewSlot), NewSlot)

\* parse_bytes returning false taken like a return of true: the socket stays
\* open and the write half follows
ParsedKeepsOpen(r) ==
    CASE r.ev = "finish" -> OnFinish(r)
      [] r.ev \in {"none", "fail"} ->
            /\ clients' = [clients EXCEPT ![turn].incoming_request = r.st]
            /\ lpc' = "write" /\ turn' = turn
            /\ mutex' = "loop" /\ lrest' = <<>>
            /\ UNCHANGED <<message, handle, order>>
      [] OTHER ->
            /\ clients' = [clients EXCEPT ![turn].incoming_request = r.st]
            /\ lpc' = "thrown" /\ turn' = turn
            /\ mutex' = "free" /\ lrest' = <<>>
            /\ UNCHANGED <<message, handle, order>>

\* what parse_bytes did with the bytes it was given: r is the parser's run up
\* to the first call of on_finish, failure or exception
Parsed(r) ==
    CASE r.ev = "finish" -> OnFinish(r)
      [] r.ev = "none" ->
            /\ clients' = [clients EXCEPT ![turn].incoming_request = r.st]
            /\ lpc' = "write" /\ turn' = turn
            /\ mutex' = "loop" /\ lrest' = <<>>
            /\ UNCHANGED <<message, handle, order>>
      [] r.ev = "fail" ->
            /\ clients' = [clients EXCEPT ![turn].incoming_request = r.st,
                                          ![turn].socket = INVALID_SOCKET]
            /\ Advance
            /\ mutex' = "loop" /\ lrest' = <<>>
            /\ UNCHANGED <<message, handle, order>>
      [] OTHER ->
            \* std::stoul threw (or the assert fired): nothing in listen catches it
            /\ clients' = [clients EXCEPT ![turn].incoming_request = r.st]
            /\ lpc' = "thrown" /\ turn' = turn
            /\ mutex' = "free" /\ lrest' = <<>>
            /\ UNCHANGED <<message, handle, order>>

\* the byte strings parse_bytes is given by listen: what recv delivers, and
\* what is left of it after a request
Buffers ==
    { buf.bytes : buf \in RecvData(MaxArrivals) } \cup {REQ_Other, <<>>}

\* the run of parse_bytes on each of them from the state after construction
\* or reset(), worked out once
FreshRuns ==
    [bytes \in Buffers, bits \in {32, 64} |-> ParseRun(InitialRequest, bytes, bits)]

\* the run of parse_bytes on the bytes, in the state st
ParseBuffer(st, bytes, bits) ==
    IF st = InitialRequest /\ <<bytes, bits>> \in DOMAIN FreshRuns
    THEN FreshRuns[bytes, bits]
    ELSE ParseRun(st, bytes, bits)

\* recv reporting EAGAIN or EWOULDBLOCK taken for an error
RecvWouldBlockCloses ==
    /\ clients[turn].socket \in read_fds
    /\ clients' = Closed(turn)
    /\ Advance
    /\ UNCHANGED <<message, handle, order, lrest, mutex, arrivals>>

\* recv returned -1 with errno EAGAIN or EWOULDBLOCK: "no problem, but no
\* data", and the write half follows
RecvWouldBlock ==
    /\ clients[turn].socket \in read_fds
    /\ lpc' = "write"
    /\ UNCHANGED <<clients, message, handle, order, lrest, mutex, turn, arrivals>>

\* the read half of a client's turn
Read ==
    /\ lpc = "read"
    /\ \/ \* select took the socket out of read_fds
          /\ lpc' = "write"
          /\ UNCHANGED <<clients, message, handle, order, lrest, mutex, turn, arrivals>>
       \/ RecvWouldBlock
       \/ /\ clients[turn].socket \in read_fds
          /\ clients' = Closed(turn)
          /\ Advance
          /\ UNCHANGED <<message, handle, order, lrest, mutex, arrivals>>
       \/ /\ clients[turn].socket \in read_fds
          /\ \E buf \in RecvData(MaxArrivals - arrivals) :
                 /\ arrivals' = arrivals + buf.requests
                 /\ Parsed(ParseBuffer(clients[turn].incoming_request, buf.bytes, ulong_bits))
    /\ UNCHANGED <<pvars, rvars, tvars, stopvars, read_fds, write_fds, wake_pending, sent>>

\* handle_request returned, with the response destroyed or moved away:
\* lock.lock(), reset(), and parse_bytes goes on with the rest
CallbackReturn ==
    /\ lpc = "callback"
    /\ mutex = "free"
    /\ Parsed(ParseBuffer(AfterFinish(clients[turn].incoming_request), lrest, ulong_bits))
    /\ UNCHANGED <<pvars, rvars, tvars, stopvars, read_fds, write_fds, wake_pending, sent, arrivals>>

\* the erasure of the last k bytes instead
EraseBack(data, k) == SubSeq(data, 1, Len(data) - k)

\* data.erase(0, k)
Erase(data, k) == SubSeq(data, k + 1, Len(data))

\* the chain moving on after every send
EmptyAlways(data, k) == TRUE

\* data.empty() after data.erase(0, k)
Empty(data, k) == Erase(data, k) = <<>>

\* data.erase(0, ret) and, with nothing left, the chain moves on; log is what
\* the socket has now taken
SentLogged(first, k, log) ==
    /\ sent' = [sent EXCEPT ![clients[turn].socket] =
                   IF Answered(log, order[clients[turn].socket]) THEN Tail(log) ELSE log]
    /\ order' = [order EXCEPT ![clients[turn].socket] =
                   IF Answered(log, @) THEN Tail(@) ELSE @]
    /\ IF Empty(message[first].data, k)
       THEN /\ clients' = [clients EXCEPT ![turn].first_message = message[first].next]
            /\ message' = Collect([message EXCEPT ![first].data = <<>>,
                                                  ![first].next = NoMessage],
                                  clients', Holders)
            /\ handle' = Tidied(handle, [message EXCEPT ![first].next = NoMessage], clients')
       ELSE /\ message' = [message EXCEPT ![first].data = Erase(@, k)]
            /\ UNCHANGED <<clients, handle>>

\* send took the first k bytes of the first message
Sent(first, k) ==
    SentLogged(first, k, Logged(sent[clients[turn].socket], first,
                                SubSeq(message[first].data, 1, k)))

\* the condition of the write half
MayWrite(c) ==
    /\ c.socket \in write_fds
    /\ c.first_message # NoMessage
    /\ message[c.first_message].ready

\* send returned -1 with errno EAGAIN or EWOULDBLOCK: "no problem"
SendWouldBlock ==
    /\ MayWrite(clients[turn])
    /\ UNCHANGED <<clients, message, handle, sent, order>>

\* the write half of a client's turn
Write ==
    /\ lpc = "write"
    /\ \/ \* select took the socket out of write_fds, or nothing is ready
          UNCHANGED <<clients, message, handle, sent, order>>
       \/ SendWouldBlock
       \/ /\ MayWrite(clients[turn])
          /\ clients' = Closed(turn)
          /\ UNCHANGED <<message, handle, sent, order>>
       \/ /\ MayWrite(clients[turn])
          /\ \E k \in SendCounts(Len(message[clients[turn].first_message].data)) :
                 Sent(clients[turn].first_message, k)
    /\ Advance
    /\ UNCHANGED <<pvars, rvars, tvars, stopvars, mutex, read_fds, write_fds, lrest, wake_pending, arrivals>>

IsOpen(c) == c.socket # INVALID_SOCKET

\* a reap that erases the first closed client only
ReapedFirstOnly(next) ==
    /\ lpc = "reap"
    /\ clients' = IF \A i \in DOMAIN clients : IsOpen(clients[i]) THEN clients
                  ELSE LET k == CHOOSE i \in DOMAIN clients :
                                   /\ ~IsOpen(clients[i])
                                   /\ \A j \in 1..(i - 1) : IsOpen(clients[j])
                       IN  SubSeq(clients, 1, k - 1) \o SubSeq(clients, k + 1, Len(clients))
    /\ message' = Collect(message, clients', Holders)
    /\ handle' = Tidied(handle, message, clients')
    /\ sent' = Kept(sent, clients')
    /\ order' = Kept(order, clients')
    /\ read_fds' = {} /\ write_fds' = {}
    /\ lpc' = next
    /\ UNCHANGED <<pvars, rvars, tvars, stopvars, mutex, turn, lrest, wake_pending, arrivals>>

\* closed clients are erased, and the thread goes on at next
Reaped(next) ==
    /\ lpc = "reap"
    /\ clients' = SelectSeq(clients, IsOpen)
    /\ message' = Collect(message, clients', Holders)
    /\ handle' = Tidied(handle, message, clients')
    /\ sent' = Kept(sent, clients')
    /\ order' = Kept(order, clients')
    /\ read_fds' = {} /\ write_fds' = {}
    /\ lpc' = next
    /\ UNCHANGED <<pvars, rvars, tvars, stopvars, mutex, turn, lrest, wake_pending, arrivals>>

\* closed clients are erased; back to the top of the loop
Reap == Reaped("build")

\* ------------------------------------------------- response::~response, by any thread

\* weak_message.lock(): the destructor returns at once if the message is gone,
\* and builds the bytes if it is still there
LockWeak(h) ==
    /\ handle[h].pc = "held"
    /\ handle' = [handle EXCEPT ![h] = IF Owned(h) THEN [@ EXCEPT !.pc = "locked"]
                                       ELSE NoHandle]
    /\ UNCHANGED <<pvars, rvars, tvars, stopvars, lpc, mutex, clients, message, read_fds, write_fds, turn,
                   lrest, wake_pending, arrivals, sent, order>>

\* the response of a request parsed earlier on the same connection is not
\* written yet
Overtakes(h, ord) ==
    \E i, j \in DOMAIN ord :
        /\ i < j /\ ord[j].slot = h
        /\ handle[ord[i].slot].pc \in {"held", "locked"}

\* the block under owner->mutex
WriteMessage(h) ==
    /\ handle[h].pc = "locked"
    /\ mutex = "free"
    /\ message' = [message EXCEPT ![h].data = Serialize(handle[h].response),
                                  ![h].ready = TRUE]
    /\ handle' = [handle EXCEPT ![h].pc = "wrote"]
    /\ order' = [c \in DOMAIN order |->
                    [i \in DOMAIN order[c] |->
                        IF order[c][i].slot = h
                        THEN [order[c][i] EXCEPT !.overtook = Overtakes(h, order[c])]
                        ELSE order[c][i]]]
    /\ UNCHANGED <<pvars, rvars, tvars, stopvars, lpc, mutex, clients, read_fds, write_fds, turn, lrest,
                   wake_pending, arrivals, sent>>

\* owner->wake(), after which the destructor returns and shared_message is
\* released
wake(h) ==
    /\ handle[h].pc = "wrote"
    /\ mutex = "free"
    /\ wake_pending' = IF wake_socket # INVALID_SOCKET
                       THEN Min(wake_pending + 1, MaxWake) ELSE wake_pending
    /\ handle' = Tidied([handle EXCEPT ![h].pc = "done"], message, clients)
    /\ message' = Collect(message, clients, Holders \ {h})
    /\ UNCHANGED <<pvars, rvars, tvars, stopvars, lpc, mutex, clients, read_fds, write_fds, turn,
                   lrest, arrivals, sent, order>>

Next ==
    \/ Build \/ Select \/ Accept \/ Read \/ CallbackReturn \/ Write \/ Reap
    \/ \E h \in Slots : LockWeak(h) \/ WriteMessage(h) \/ wake(h)

Spec == ServerInit /\ [][Next]_vars

\* ------------------------------------------------- server::stop, by other threads

\* while (!quit_flag) ends the loop: the listening socket and wake_socket are
\* closed (the datagrams waiting on it are gone), running is cleared,
\* cv.notify_all() reaches the threads that wait in stop, and the return
\* releases the lock
Leave ==
    /\ lpc = "build"
    /\ quit_flag
    /\ wake_socket' = INVALID_SOCKET
    /\ wake_pending' = 0
    /\ running' = FALSE
    /\ stop_pc' = [t \in Stoppers |->
                      IF stop_pc[t] = "waiting" THEN "notified" ELSE stop_pc[t]]
    /\ mutex' = "free"
    /\ lpc' = "returned"
    /\ UNCHANGED <<pvars, rvars, tvars, clients, message, handle, read_fds, write_fds, turn,
                   lrest, arrivals, quit_flag, sent, order>>

\* stop() up to cv.wait(lock), which releases the mutex, or up to its return
\* (the threads are alike: the one with the lowest number calls first)
Stop(t) ==
    /\ stop_pc[t] = "idle"
    /\ \A u \in Stoppers : u < t => stop_pc[u] # "idle"
    /\ mutex = "free"
    /\ quit_flag' = TRUE
    /\ stop_pc' = [stop_pc EXCEPT ![t] = IF running THEN "waiting" ELSE "returned"]
    /\ UNCHANGED <<pvars, rvars, tvars, lpc, mutex, clients, message, handle, read_fds,
                   write_fds, turn, lrest, wake_pending, arrivals, running,
                   wake_socket, sent, order>>

\* cv.wait(lock) returns with the mutex locked again, after notify_all or
\* without any notification (a condition variable may wake spuriously), and
\* assert(!running) is evaluated: "failed" is the assertion not holding
Woken(t) ==
    /\ stop_pc[t] \in {"waiting", "notified"}
    /\ mutex = "free"
    /\ stop_pc' = [stop_pc EXCEPT ![t] = IF running THEN "failed" ELSE "returned"]
    /\ UNCHANGED <<pvars, rvars, tvars, lpc, mutex, clients, message, handle, read_fds,
                   write_fds, turn, lrest, wake_pending, arrivals, quit_flag, running,
                   wake_socket, sent, order>>

NextStop ==
    \/ Next
    \/ Leave
    \/ \E t \in Stoppers : Stop(t) \/ Woken(t)

SpecStop == ServerInit /\ [][NextStop]_vars

\* ------------------------------------------------- server::listen, from its call

\* the calls of the socket setup, in order; "none" is no failure
SetupCalls == <<"socket (wake)", "bind (wake)", "getsockname", "socket", "bind", "listen">>

\* wake_socket at the return that follows the failure of a setup call: -1 as
\* returned by ::socket, INVALID_SOCKET after the failed bind, open afterwards
WakeSocketAfter(failed) ==
    IF failed \in {"socket (wake)", "bind (wake)"} THEN INVALID_SOCKET ELSE WakeSocket

\* a server as constructed: listen has not been called
ListenInit ==
    /\ ParserIdle /\ ResponseIdle /\ TweakIdle
    /\ lpc = "new" /\ mutex = "free" /\ clients = <<>>
    /\ message = [s \in Slots |-> NewMessage]
    /\ handle = [s \in Slots |-> NoHandle]
    /\ read_fds = {} /\ write_fds = {} /\ turn = 0 /\ lrest = <<>>
    /\ wake_pending = 0 /\ arrivals = 0
    /\ quit_flag = FALSE /\ running = FALSE /\ wake_socket = INVALID_SOCKET
    /\ stop_pc = [t \in Stoppers |-> "idle"]
    /\ sent = [c \in Sockets |-> <<>>]
    /\ order = [c \in Sockets |-> <<>>]

\* listen(port) from the lock to the top of its loop, or to its return: at
\* once with quit_flag set, or at the first setup call that fails (the return
\* releases the lock; the lock is held all the way, so no other thread sees a
\* state in between)
Listen ==
    /\ lpc = "new"
    /\ mutex = "free"
    /\ \/ /\ quit_flag
          /\ lpc' = "returned"
          /\ UNCHANGED <<mutex, running, wake_socket>>
       \/ /\ ~quit_flag
          /\ running' = TRUE
          /\ \/ \E i \in DOMAIN SetupCalls :
                   /\ wake_socket' = WakeSocketAfter(SetupCalls[i])
                   /\ lpc' = "returned"
                   /\ mutex' = "free"
             \/ /\ wake_socket' = WakeSocket
                /\ lpc' = "build"
                /\ mutex' = "loop"
    /\ UNCHANGED <<pvars, rvars, tvars, clients, message, handle, read_fds, write_fds, turn,
                   lrest, wake_pending, arrivals, quit_flag, stop_pc, sent, order>>

NextListen == Listen \/ NextStop

SpecListen == ListenInit /\ [][NextListen]_vars

\* ------------------------------------------------- the driving call of one tick
\* tweak::sync drives the server with server->poll(callback), a call that
\* http.hpp does not have: it is written here from its description, one tick
\* of the loop above between the call and the return.

PollInit ==
    /\ ParserIdle /\ ResponseIdle /\ TweakIdle
    /\ lpc = "out" /\ mutex = "free" /\ clients = <<>>
    /\ message = [s \in Slots |-> NewMessage]
    /\ handle = [s \in Slots |-> NoHandle]
    /\ read_fds = {} /\ write_fds = {} /\ turn = 0 /\ lrest = <<>>
    /\ wake_pending = 0 /\ arrivals = 0
    /\ quit_flag = FALSE /\ running = TRUE /\ wake_socket = WakeSocket
    /\ stop_pc = [t \in Stoppers |-> "idle"]
    /\ sent = [c \in Sockets |-> <<>>]
    /\ order = [c \in Sockets |-> <<>>]

\* the call: the lock is taken and the tick begins
PollEnter ==
    /\ lpc = "out"
    /\ mutex = "free"
    /\ lpc' = "build"
    /\ mutex' = "loop"
    /\ UNCHANGED <<pvars, rvars, tvars, stopvars, clients, message, handle, read_fds, write_fds,
                   turn, lrest, wake_pending, arrivals, sent, order>>

\* the reap step that goes back to the top of a loop instead
PollReapLoops == Reaped("build")

\* the reap step, the last one of the tick
PollReap == Reaped("done")

\* the return to the caller
PollReturn ==
    /\ lpc = "done"
    /\ lpc' = "out"
    /\ mutex' = "free"
    /\ UNCHANGED <<pvars, rvars, tvars, stopvars, clients, message, handle, read_fds, write_fds,
                   turn, lrest, wake_pending, arrivals, sent, order>>

NextPoll ==
    \/ PollEnter \/ Build \/ Select \/ Accept \/ Read \/ CallbackReturn \/ Write
    \/ PollReap \/ PollReturn
    \/ \E h \in Slots : LockWeak(h) \/ WriteMessage(h) \/ wake(h)

SpecPoll == PollInit /\ [][NextPoll]_vars

\* ------------------------------------------------- tweak::sync
\* sync() runs under internal.mutex from its first line to its last: one call
\* is one step.  The requests the server hands to the callback during the
\* call and the state the tweaks serialize to are the inputs of the step.

MaxSerial == 2            \* changes of the state
MaxParked == 2            \* responses parked in internal.polls
MaxRequestsPerSync == 1   \* requests handed to the callback by one call

U_Root == <<"/">>
U_Tweaks == <<"/", "t", "w", "e", "a", "k", "s">>
U_Other == <<"/", "x">>
LongPollPrefix == U_Tweaks \o <<"?">>
M_Get == <<"G", "E", "T">>
M_Post == <<"P", "O", "S", "T">>

\* what follows the question mark of a long poll: the serials the state can
\* have, 2^32 - 1, 2^32, and no number at all
SerialTexts ==
    { NatToString(n) : n \in 0..MaxSerial }
    \cup { <<"4", "2", "9", "4", "9", "6", "7", "2", "9", "5">>,
           <<"4", "2", "9", "4", "9", "6", "7", "2", "9", "6">>,
           <<"x">> }

TweakRequests ==
    { [method |-> M_Get, url |-> u] :
          u \in {U_Root, U_Tweaks, U_Other} \cup { LongPollPrefix \o t : t \in SerialTexts } }
    \cup { [method |-> M_Post, url |-> U_Tweaks] }

\* the text all the tweaks serialize to: no tweak, and one tweak with two values
S_None == <<"{", LF, LF, "}">>
S_One == <<"{", LF, "\"", "a", "\"", ":", "1", LF, "}">>
S_Two == <<"{", LF, "\"", "a", "\"", ":", "2", LF, "}">>
AllStates == {S_None, S_One, S_Two}

\* the contents of the ui file
UiFile == <<"<", "u", "i", ">">>

\* -1U
U32Max == <<LimbBase - 1, LimbBase - 1>>

\* ++x on a uint32_t
U32Inc(u) ==
    IF u[2] < LimbBase - 1 THEN <<u[1], u[2] + 1>>
    ELSE IF u[1] < LimbBase - 1 THEN <<u[1] + 1, 0>>
    ELSE <<0, 0>>

\* std::to_string of a uint32_t (of one below 2^31, which TLC can hold)
U32ToString(u) == to_string(u[1] * LimbBase + u[2])

\* the serial of a long poll: -1U when std::stoul throws
PollSerial(url, bits) ==
    LET r == stoul(From(url, Len(LongPollPrefix) + 1), bits)
    IN  IF r.throws THEN U32Max ELSE r.val

NotFound ==
    [code |-> 404, message |-> <<"N", "o", "t", SP, "F", "o", "u", "n", "d">>,
     headers |-> << <<<<"C", "o", "n", "t", "e", "n", "t", "-", "T", "y", "p", "e">>,
                      <<"t", "e", "x", "t", "/", "p", "l", "a", "i", "n">>>> >>,
     body |-> <<"N", "o", "t", SP, "F", "o", "u", "n", "d">>]

\* a response destroyed, for the request with this url, while the serial and
\* the state were these
Destroyed(url, r, serial, st) == [url |-> url, response |-> r, serial |-> serial, state |-> st]

\* the callback given to the server: what it leaves in polls and the
\* responses destroyed when it returns (those it did not move away)
Callback(req, ps, gone, bits) ==
    IF req.method = M_Get /\ req.url = U_Root
    THEN [polls |-> ps,
          gone |-> gone \cup {Destroyed(req.url, [DefaultResponse EXCEPT !.body = UiFile],
                                        state_serial, state)}]
    ELSE IF req.method = M_Get /\ req.url = U_Tweaks
    THEN [polls |-> Append(ps, [serial |-> U32Zero, url |-> req.url]), gone |-> gone]
    ELSE IF req.method = M_Get /\ StartsWith(req.url, LongPollPrefix)
    THEN IF PollSerial(req.url, bits) # U32Max
         THEN [polls |-> Append(ps, [serial |-> PollSerial(req.url, bits), url |-> req.url]),
               gone |-> gone]
         ELSE [polls |-> ps,
               gone |-> gone \cup {Destroyed(req.url, DefaultResponse, state_serial, state)}]
    ELSE IF req.method = M_Post /\ req.url = U_Tweaks
    THEN [polls |-> ps,
          gone |-> gone \cup {Destroyed(req.url, DefaultResponse, state_serial, state)}]
    ELSE [polls |-> ps,
          gone |-> gone \cup {Destroyed(req.url, NotFound, state_serial, state)}]

\* server->poll(callback): the callback is called for each request in turn
RECURSIVE Callbacks(_, _, _, _)
Callbacks(reqs, ps, gone, bits) ==
    IF reqs = <<>> THEN [polls |-> ps, gone |-> gone]
    ELSE Callbacks(Tail(reqs), Callback(Head(reqs), ps, gone, bits).polls,
                   Callback(Head(reqs), ps, gone, bits).gone, bits)

\* the body of the answer to a poll
PollBody(serial, st) ==
    <<"{", "\"", "s", "e", "r", "i", "a", "l", "\"", ":">> \o U32ToString(serial)
      \o <<",", "\"", "s", "t", "a", "t", "e", "\"", ":">> \o st \o <<"}">>

PollAnswer(serial, st) ==
    [DefaultResponse EXCEPT
        !.body = PollBody(serial, st),
        !.headers = << <<<<"C", "o", "n", "t", "e", "n", "t", "-", "T", "y", "p", "e">>,
                         <<"a", "p", "p", "l", "i", "c", "a", "t", "i", "o", "n", "/",
                           "j", "s", "o", "n">>>> >>]

\* the test of the loop over polls: this poll is answered
AnsweredWhen(p, serial) == p.serial # serial

\* the end of sync, given what the callback left: the state and its serial are
\* brought up to date and the polls whose serial differs are answered
SyncEnd(cb, all_state, serial) ==
    /\ state' = all_state
    /\ state_serial' = serial
    /\ polls' = SelectSeq(cb.polls, LAMBDA p : ~AnsweredWhen(p, serial))
    /\ answered' = cb.gone \cup
           { Destroyed(cb.polls[i].url, PollAnswer(serial, all_state), serial, all_state) :
                 i \in { j \in DOMAIN cb.polls : AnsweredWhen(cb.polls[j], serial) } }

TweakInit ==
    /\ ResponseIdle /\ ServerIdle
    /\ plan = <<>> /\ wire = <<>> /\ pos = 0 /\ ulong_bits \in {32, 64}
    /\ incoming_request = InitialRequest /\ delivered = <<>> /\ outcome = "ok"
    /\ polls = <<>> /\ state_serial = U32Zero /\ state = <<>> /\ answered = {}

\* one call of tweak::sync
Sync(reqs, all_state) ==
    /\ Len(polls) + Len(reqs) <= MaxParked
    /\ all_state # state => state_serial[1] = 0 /\ state_serial[2] < MaxSerial
    /\ SyncEnd(Callbacks(reqs, polls, {}, ulong_bits), all_state,
               IF all_state # state THEN U32Inc(state_serial) ELSE state_serial)
    /\ UNCHANGED <<pvars, rvars, svars>>

NextTweak ==
    \E reqs \in SeqsUpTo(TweakRequests, MaxRequestsPerSync), all_state \in AllStates :
        Sync(reqs, all_state)

SpecTweak == TweakInit /\ [][NextTweak]_vars

\* ------------------------------------------------- the server that keeps going
\* The loop takes its next step (select returns after a second at the
\* latest, handle_request returns), a response that was handed over is
\* destroyed in the end, a destructor gets the mutex, which listen releases
\* in every iteration, and a socket whose peer keeps reading takes bytes
\* again and again.

LoopStep == Build \/ Select \/ Accept \/ Read \/ CallbackReturn \/ Write \/ Reap

\* a write half in which send took bytes
WriteTakes ==
    /\ Write
    /\ clients'[turn].socket = clients[turn].socket
    /\ \/ message' # message
       \/ clients'[turn].first_message # clients[turn].first_message

\* a step of the destructor of some response
Destructs == \E h \in Slots : LockWeak(h) \/ WriteMessage(h) \/ wake(h)

Fairness ==
    /\ WF_vars(LoopStep)
    /\ SF_vars(WriteTakes)
    /\ SF_vars(Destructs)

SpecLive == ServerInit /\ [][Next]_vars /\ Fairness

\* ------------------------------------------------- the server, claims

IsPrefix(a, b) == Len(a) <= Len(b) /\ SubSeq(b, 1, Len(a)) = a

\* C1: on every connection the bytes the socket took are the responses of its
\* requests in the order the requests were parsed, each response complete
\* before the first byte of the next, whatever the order in which the
\* responses were destroyed. (sent and order hold what is left once the
\* requests answered in full, which are the oldest, are dropped from both.)
C1_InParseOrder ==
    \A c \in DOMAIN sent :
        /\ Len(sent[c]) <= Len(order[c])
        /\ \A i \in DOMAIN sent[c] :
              /\ sent[c][i].slot = order[c][i].slot
              /\ IsPrefix(sent[c][i].bytes, Serialize(order[c][i].response))
              /\ i < Len(sent[c]) => sent[c][i].bytes = Serialize(order[c][i].response)

\* the response of the second request of a connection was written before that
\* of the first; the first has been sent in full and the second in part
C1_Witness ==
    \E c \in DOMAIN sent :
        /\ Len(order[c]) = 1
        /\ order[c][1].overtook
        /\ Len(sent[c]) = 1
        /\ Len(sent[c][1].bytes) = Segment

\* the message at s hangs on the chain of a client of the list
OnAClient(s) == \E i \in DOMAIN clients : InChain(message, clients[i].first_message, s)

\* C2: a response destroyed when its connection has been closed and erased
\* from the list does nothing: weak_message.lock() finds no message and the
\* destructor returns, no message is written or made ready, no datagram is
\* sent to the wake socket, and no byte is sent.
C2_NoOpAfterReap ==
    [][\A h \in Slots :
          (handle[h].pc = "held" /\ ~OnAClient(h) /\ handle'[h].pc # "held")
             => /\ handle'[h].pc = "none"
                /\ message' = message
                /\ wake_pending' = wake_pending
                /\ sent' = sent
      ]_vars

\* C9: a step that closes the socket of one client leaves every other client
\* and its messages as they were, and no step ends the loop.
C9_OnlyThatConnection ==
    [][/\ lpc' # "thrown"
       /\ \A i \in DOMAIN clients :
              (/\ Len(clients') = Len(clients)
               /\ clients[i].socket # INVALID_SOCKET
               /\ clients'[i].socket = INVALID_SOCKET)
                 => \A j \in DOMAIN clients \ {i} :
                        /\ clients'[j] = clients[j]
                        /\ \A k \in DOMAIN Chain(message, clients[j].first_message) :
                               message'[Chain(message, clients[j].first_message)[k]]
                                   = message[Chain(message, clients[j].first_message)[k]]
      ]_vars

IsSuffix(a, b) == Len(a) <= Len(b) /\ SubSeq(b, Len(b) - Len(a) + 1, Len(b)) = a

\* the message at s is, after the step, still the object it was before
Survives(s) == OwnedIn(message', clients', HoldersOf(handle'), s)

\* C12: a message starts with ready false; ready becomes true only in the
\* destructor of the response made for it, which writes the serialized
\* response; and a message that is ready stays ready for as long as it exists,
\* its data changing only in the write half of the loop and only by losing
\* bytes at the front.
C12_ReadyOnce ==
    [][\A s \in Slots :
          /\ (handle[s].pc = "none" /\ handle'[s].pc = "held") => ~message'[s].ready
          /\ (~message[s].ready /\ message'[s].ready)
                => /\ handle[s].pc = "locked" /\ handle'[s].pc = "wrote"
                   /\ message'[s].data = Serialize(handle[s].response)
          /\ (message[s].ready /\ Survives(s))
                => /\ message'[s].ready
                   /\ IsSuffix(message'[s].data, message[s].data)
                   /\ message'[s].data # message[s].data => lpc = "write"
      ]_vars

\* a message is ready and send has taken its first bytes but not all of them
C12_Witness ==
    \E c \in DOMAIN order : \E i \in DOMAIN order[c] :
        /\ message[order[c][i].slot].ready
        /\ Len(message[order[c][i].slot].data) > 0
        /\ Len(message[order[c][i].slot].data) < Len(Serialize(order[c][i].response))

\* C13: stop called by other threads while listen is in its loop is safe:
\* the assertion after the wait holds for every caller, and no call of stop
\* has returned while running is still true.
C13_StopWaitsForListen ==
    \A t \in Stoppers :
        /\ stop_pc[t] # "failed"
        /\ stop_pc[t] = "returned" => ~running

\* the places of the thread inside a call of listen
InListen == {"build", "select", "accept", "read", "callback", "write", "reap"}

\* C25: running is true only while a call of listen is in progress, and a
\* thread waits in stop only then: with listen not called yet, or returned, at
\* its end or from its socket setup, no caller of stop is left waiting.
C25_StopBlocksOnlyDuringListen ==
    /\ running => lpc \in InListen
    /\ \A t \in Stoppers : stop_pc[t] = "waiting" => lpc \in InListen

C16_OnlyReadyHead ==
    [][/\ lpc = "build"
             => \A c \in write_fds' :
                    \E i \in DOMAIN clients :
                        /\ clients[i].socket = c
                        /\ clients[i].first_message # NoMessage
                        /\ message[clients[i].first_message].ready
       /\ (/\ lpc = "write"
           /\ \/ message' # message
              \/ sent' # sent
              \/ clients'[turn].first_message # clients[turn].first_message)
             => /\ clients[turn].socket \in write_fds
                /\ clients[turn].first_message # NoMessage
                /\ message[clients[turn].first_message].ready
                /\ \A s \in Slots \ {clients[turn].first_message} : message'[s] = message[s]
       /\ sent' # sent => lpc \in {"write", "reap"}
       /\ lpc = "reap" => \A c \in DOMAIN sent : sent'[c] \in {sent[c], <<>>}
      ]_vars

\* the write halves of a tick are over and nothing was sent to a client whose
\* first message is not ready while its second one is
C16_Witness ==
    /\ lpc = "reap"
    /\ \E i \in DOMAIN clients :
          /\ clients[i].socket \in read_fds
          /\ Len(Chain(message, clients[i].first_message)) = 2
          /\ ~message[clients[i].first_message].ready
          /\ message[message[clients[i].first_message].next].ready
          /\ sent[clients[i].socket] = <<>>

\* the bytes a socket took of the response the message at s holds, log being
\* what is remembered of the socket
SentIn(log, s) ==
    IF log # <<>> /\ log[Len(log)].slot = s THEN log[Len(log)].bytes ELSE <<>>

SentOf(c, s) == SentIn(sent[c], s)

\* the bytes of the first message of client i that send took in the step, seen
\* from what is left of them: k is their number
TookFirst(i, k) ==
    LET first == clients[i].first_message
        data == message[first].data
    IN  /\ 0 < k /\ k <= Len(data)
        /\ IF k < Len(data)
           THEN /\ clients'[i].first_message = first
                /\ message'[first].data = SubSeq(data, k + 1, Len(data))
                /\ SentIn(sent'[clients[i].socket], first) =
                       SentOf(clients[i].socket, first) \o SubSeq(data, 1, k)
           ELSE /\ clients'[i].first_message = message[first].next
                /\ \A j \in DOMAIN order[clients[i].socket] :
                       order[clients[i].socket][j].slot = first
                          => SentOf(clients[i].socket, first) \o data
                                = Serialize(order[clients[i].socket][j].response)

\* C17: what a socket has taken of a response and what is left in the data of
\* its message are, together, the serialized response, the message being the
\* first of its client; and a step of the write half that takes bytes takes
\* the first k of the data, 0 < k <= size, leaves the rest in the message,
\* which stays first, when k is less than the size, and makes the next
\* message the first one when k is the size.
C17_NoLossNoDuplicate ==
    /\ [](\A c \in DOMAIN order : \A j \in DOMAIN order[c] :
              LET s == order[c][j].slot
              IN  message[s].ready
                     => /\ SentOf(c, s) \o message[s].data = Serialize(order[c][j].response)
                        /\ SentOf(c, s) # <<>>
                              => \A i \in DOMAIN clients :
                                     clients[i].socket = c => clients[i].first_message = s)
    /\ [][(/\ lpc = "write"
           /\ \/ message' # message
              \/ clients'[turn].first_message # clients[turn].first_message)
             => \E i \in DOMAIN clients :
                    /\ i = turn
                    /\ \E k \in 1..Len(message[clients[i].first_message].data) :
                           TookFirst(i, k)
         ]_vars

\* send took the first Segment bytes of a response and the rest of them is
\* the data of the message, still the first of its client
C17_Witness ==
    \E i \in DOMAIN clients :
        /\ IsOpen(clients[i])
        /\ clients[i].first_message # NoMessage
        /\ Len(SentOf(clients[i].socket, clients[i].first_message)) = Segment
        /\ message[clients[i].first_message].data =
              From(Serialize(order[clients[i].socket][1].response), Segment + 1)

\* a step of the destructor of the response of the message at h: the block
\* under the mutex, or wake() and the release of shared_message
Finalizes(h) ==
    \/ handle[h].pc = "locked" /\ handle'[h].pc = "wrote"
    \/ handle[h].pc = "wrote" /\ handle'[h].pc \in {"done", "none"}

\* the first message of some client is another one after the step
LinksChange ==
    \/ Len(clients') # Len(clients)
    \/ \E i \in DOMAIN clients : clients'[i].first_message # clients[i].first_message

\* C18: the thread in listen holds the mutex wherever it reads or writes
\* messages and chains (filling the fd sets, the read and write halves, the
\* reap) and does not hold it in select, in accept and in handle_request; a
\* destructor writes its message only while the mutex is not held by listen,
\* that is in those three places; and a step that changes a message or a
\* chain is a step of listen made with the mutex (held since before the step,
\* or locked again on the return of handle_request), the arrival in accept of
\* a new client that has no message yet, or a step of a destructor, which
\* changes no chain and no message but its own, apart from the messages
\* destroyed with the last reference to them.
C18_UnderMutex ==
    /\ [](/\ lpc \in {"build", "read", "write", "reap"} => mutex = "loop"
          /\ lpc \in {"select", "accept", "callback"} => mutex = "free")
    /\ [][/\ \A h \in Slots :
                (handle[h].pc = "locked" /\ handle'[h].pc = "wrote")
                   => /\ mutex = "free" /\ mutex' = "free"
                      /\ lpc \in {"select", "accept", "callback", "thrown"}
                      /\ lpc' = lpc
          /\ (message' # message \/ LinksChange)
                => \/ /\ lpc \in {"read", "write", "reap"} /\ mutex = "loop"
                      /\ \A h \in Slots : ~Finalizes(h)
                   \/ /\ lpc = "callback" /\ mutex = "free"
                      /\ \A h \in Slots : ~Finalizes(h)
                   \/ /\ lpc = "accept" /\ mutex = "free" /\ message' = message
                      /\ clients' = Append(clients, NewClient(clients'[Len(clients')].socket))
                   \/ \E h \in Slots :
                         /\ Finalizes(h)
                         /\ mutex = "free"
                         /\ ~LinksChange
                         /\ \A s \in Slots \ {h} :
                               message'[s] # message[s] => message'[s] = NewMessage
         ]_vars

\* the destructor of a response has written its message while the thread in
\* listen was in handle_request for a later request of the same client
C18_Witness ==
    /\ lpc = "callback"
    /\ mutex = "free"
    /\ \E h \in Slots :
          /\ handle[h].pc = "wrote"
          /\ message[h].ready
          /\ clients[turn].first_message = h
          /\ message[h].next # NoMessage

\* C19: the destructor that has made a message ready sends a datagram to
\* wake_socket before it returns; and a message that is ready on the chain of
\* a client leaves the chain in the end, sent in full if the connection lasts
\* (bytes leave a chain only through send, see C17), unless the loop has been
\* left by an exception.
C19_EventuallySent ==
    /\ [][\A h \in Slots :
             (handle[h].pc = "wrote" /\ handle'[h].pc # "wrote")
                => (message[h].ready /\ wake_pending' > 0)]_vars
    /\ \A s \in Slots :
          (message[s].ready /\ OnAClient(s)) ~> (~OnAClient(s) \/ lpc = "thrown")

\* a response was destroyed while the loop was in select, after write_fds was
\* filled without the socket of its client: the message is ready and the
\* datagram waits on wake_socket
C19_Witness ==
    /\ lpc = "select"
    /\ wake_pending > 0
    /\ \E i \in DOMAIN clients :
          /\ clients[i].first_message # NoMessage
          /\ message[clients[i].first_message].ready
          /\ handle[clients[i].first_message].pc \in {"done", "none"}
          /\ clients[i].socket \notin write_fds

\* the step in which parse_bytes returns false to listen: on the bytes of a
\* recv, or on the rest of them after handle_request has returned
ParseFails ==
    \/ /\ lpc = "read"
       /\ clients[turn].socket \in read_fds
       /\ \E buf \in RecvData(MaxArrivals - arrivals) :
              /\ ParseBuffer(clients[turn].incoming_request, buf.bytes, ulong_bits).ev = "fail"
              /\ arrivals' = arrivals + buf.requests
              /\ clients'[turn].incoming_request =
                    ParseBuffer(clients[turn].incoming_request, buf.bytes, ulong_bits).st
    \/ /\ lpc = "callback"
       /\ lrest' # lrest
       /\ ParseBuffer(AfterFinish(clients[turn].incoming_request), lrest, ulong_bits).ev = "fail"

\* the reap step of listen
ReapStep == lpc = "reap" /\ lpc' # "reap"

\* the messages on the chain of a client keep their bytes: the only change
\* is a destructor filling a message that was not ready
KeepsBytes(c) ==
    \A j \in DOMAIN Chain(message, c.first_message) :
        \/ message'[Chain(message, c.first_message)[j]] =
              message[Chain(message, c.first_message)[j]]
        \/ ~message[Chain(message, c.first_message)[j]].ready

\* C20: the step in which parse_bytes reports failure closes the socket of the
\* client and goes on with the next client or the reap, past the write half,
\* and sends nothing; a client whose socket is closed stays as it is, with
\* every ready message on its chain unsent, until the reap step, which leaves
\* no closed client in the table; and no closed client is in the table when
\* the next tick begins.
C20_FailureClosesSilently ==
    /\ [](lpc \in {"build", "select", "accept"}
             => \A i \in DOMAIN clients : IsOpen(clients[i]))
    /\ [][/\ ParseFails
             => /\ IsOpen(clients[turn])
                /\ clients'[turn].socket = INVALID_SOCKET
                /\ clients'[turn].first_message = clients[turn].first_message
                /\ lpc' = IF turn < Len(clients) THEN "read" ELSE "reap"
                /\ sent' = sent /\ message' = message
          /\ ~ReapStep
             => \A i \in DOMAIN clients :
                   ~IsOpen(clients[i])
                      => /\ i \in DOMAIN clients'
                         /\ clients'[i] = clients[i]
                         /\ KeepsBytes(clients[i])
                         /\ ~(lpc = "write" /\ turn = i)
          /\ ReapStep
             => /\ \A i \in DOMAIN clients' : IsOpen(clients'[i])
                /\ clients' = SelectSeq(clients, IsOpen)
         ]_vars

\* the request line of a client came without a url while the response to its
\* earlier request was ready on its chain, none of its bytes sent: the socket
\* is closed, and the message is still there
C20_Witness ==
    \E i \in DOMAIN clients :
        /\ ~IsOpen(clients[i])
        /\ clients[i].incoming_request =
              ParseBuffer(InitialRequest, REQ_NoUrl, ulong_bits).st
        /\ clients[i].first_message # NoMessage
        /\ message[clients[i].first_message].ready
        /\ message[clients[i].first_message].data # <<>>

\* the step that fills the fd sets
BuildStep == lpc = "build" /\ lpc' = "select"

\* C22: the step in which recv reports that it would block leaves the client
\* in turn as it was (socket, parser state, first message) and every message
\* as it was, and goes on to the write half of the same client; the step in
\* which send reports that it would block leaves the client, the messages and
\* the bytes taken by the sockets as they were; the reap keeps every client
\* whose socket is open, as it is; and the next fd sets name the socket of
\* every client for reading, and for writing where the first message is ready.
C22_WouldBlockIsNoError ==
    [][/\ (lpc = "read" /\ RecvWouldBlock)
          => /\ clients'[turn] = clients[turn]
             /\ IsOpen(clients'[turn])
             /\ message' = message
             /\ lpc' = "write" /\ turn' = turn
       /\ (lpc = "write" /\ SendWouldBlock)
          => /\ clients'[turn] = clients[turn]
             /\ IsOpen(clients'[turn])
             /\ message' = message
             /\ sent' = sent
       /\ ReapStep
          => \A i \in DOMAIN clients :
                IsOpen(clients[i]) => \E j \in DOMAIN clients' : clients'[j] = clients[i]
       /\ BuildStep
          => \A i \in DOMAIN clients :
                /\ clients[i].socket \in read_fds'
                /\ (/\ clients[i].first_message # NoMessage
                    /\ message[clients[i].first_message].ready)
                      => clients[i].socket \in write_fds'
      ]_vars

\* the write half of a client whose socket was in both fd sets, and who still
\* has the one message that was ready when they were filled, with all its
\* bytes, and a parser that has seen nothing: recv has given no bytes, and
\* nothing was sent in the tick before
C22_Witness ==
    /\ lpc = "write"
    /\ IsOpen(clients[turn])
    /\ clients[turn].socket \in read_fds
    /\ clients[turn].socket \in write_fds
    /\ clients[turn].incoming_request = InitialRequest
    /\ clients[turn].first_message # NoMessage
    /\ message[clients[turn].first_message].ready
    /\ message[clients[turn].first_message].next = NoMessage
    /\ message[clients[turn].first_message].data =
          Serialize(HandleRequest(Request(ParseBuffer(InitialRequest, REQ_Root, ulong_bits).st)))

\* the clients of the list whose socket is closed
ClosedClients(cl) == { i \in DOMAIN cl : ~IsOpen(cl[i]) }

\* C23: where a tick begins (the fd sets, select, accept) every client of the
\* list has an open socket, and the client whose turn it is in the read half,
\* in handle_request and in the write half has one; a socket is closed only in
\* the turn of its client, and the client stays in the list as it is, no byte
\* of its messages taken, until the reap step of that tick; the reap step
\* leaves the open clients, in their order, and none of the messages that
\* hung on a closed client hangs on a client after it.
C23_ReapedInTheSameTick ==
    /\ [](/\ lpc \in {"build", "select", "accept"} => ClosedClients(clients) = {}
          /\ lpc \in {"read", "callback", "write"} => IsOpen(clients[turn]))
    /\ [][/\ \A i \in DOMAIN clients :
                (IsOpen(clients[i]) /\ i \in DOMAIN clients' /\ ~IsOpen(clients'[i])
                   /\ ~ReapStep)
                   => /\ lpc \in {"read", "callback", "write"} /\ i = turn
                      /\ lpc' \in {"read", "reap"}
          /\ ~ReapStep
             => \A i \in ClosedClients(clients) :
                   /\ i \in DOMAIN clients'
                   /\ clients'[i] = clients[i]
                   /\ KeepsBytes(clients[i])
                   /\ lpc' # "build"
          /\ ReapStep
             => /\ clients' = SelectSeq(clients, IsOpen)
                /\ ClosedClients(clients') = {}
                /\ \A i \in ClosedClients(clients) :
                      \A j \in DOMAIN Chain(message, clients[i].first_message) :
                         \A k \in DOMAIN clients' :
                            ~InChain(message', clients'[k].first_message,
                                     Chain(message, clients[i].first_message)[j])
         ]_vars

\* a tick begins while a handler still holds the response to a request whose
\* client was closed and erased, with its message, in the tick before
C23_Witness ==
    /\ lpc = "build"
    /\ \E h \in Slots : handle[h].pc = "held" /\ ~OnAClient(h)

\* the next step of the destructor of the response of the message at h
DestructorStep(h) == LockWeak(h) \/ WriteMessage(h) \/ wake(h)

\* the destructor of the response of the message at h is under way or due
Finalizing(h) == handle[h].pc \in {"held", "locked", "wrote"}

\* C27: while the thread of listen is in handle_request the mutex is free, so
\* every destructor, wherever it runs, can take its next step there: lock the
\* message, write it under the mutex, take the mutex again in wake; wherever
\* the thread of listen is in its loop it can take its next step, so it never
\* waits for a destructor that waits for it; and when handle_request has
\* returned the thread holds the mutex again before it goes on to the write
\* half, the next client or the reap.
C27_NoDeadlockInCallback ==
    /\ [](/\ lpc = "callback"
             => /\ mutex = "free"
                /\ \A h \in Slots : Finalizing(h) => ENABLED DestructorStep(h)
          /\ lpc \in InListen => ENABLED LoopStep
          /\ \A h \in Slots :
                Finalizing(h) => (ENABLED DestructorStep(h) \/ ENABLED LoopStep))
    /\ [][(lpc = "callback" /\ lpc' \in {"read", "write", "reap"}) => mutex' = "loop"]_vars

\* the response to the request being handled has been written into its
\* message, the last of the chain of the client in turn, while the thread of
\* listen is still in handle_request: the destructor is about to call wake
C27_Witness ==
    /\ lpc = "callback"
    /\ \E h \in Slots :
          /\ handle[h].pc = "wrote"
          /\ message[h].ready
          /\ message[h].next = NoMessage
          /\ InChain(message, clients[turn].first_message, h)

\* ------------------------------------------------- tweak::sync, claims

\* the request is a long poll "/tweaks?<serial>" with a decimal serial
RefIsLongPoll(url) ==
    /\ StartsWith(url, LongPollPrefix)
    /\ Len(url) > Len(LongPollPrefix)
    /\ \A i \in (Len(LongPollPrefix) + 1)..Len(url) : IsDigit(url[i])

RefSerialText(url) == From(url, Len(LongPollPrefix) + 1)

\* a < b for two decimal numbers written without leading zeros
RefLess(a, b) ==
    \/ Len(a) < Len(b)
    \/ /\ Len(a) = Len(b)
       /\ \E i \in DOMAIN a :
             /\ DigitVal(a[i]) < DigitVal(b[i])
             /\ \A j \in 1..(i - 1) : a[j] = b[j]

\* C15: after every call of sync, no long poll is still parked whose serial
\* the state serial has gone past, and every long poll answered by the call
\* was answered with the state serial past its own, by the body
\* {"serial":N,"state":...} of the current serial and state.
C15_LongPollParked ==
    /\ \A i \in DOMAIN polls :
          RefIsLongPoll(polls[i].url)
             => ~RefLess(RefSerialText(polls[i].url), U32ToString(state_serial))
    /\ \A a \in answered :
          RefIsLongPoll(a.url)
             => /\ RefLess(RefSerialText(a.url), U32ToString(a.serial))
                /\ a.response.body = PollBody(state_serial, state)

\* ------------------------------------------------- the destroyed response, claims

RECURSIVE C6_HeaderLines(_)
C6_HeaderLines(h) ==
    IF h = <<>> THEN <<>>
    ELSE Head(h)[1] \o <<":", SP>> \o Head(h)[2] \o <<CR, LF>> \o C6_HeaderLines(Tail(h))

C6_Decimal(n) ==
    IF n < 10 THEN <<DigitChars[n + 1]>>
    ELSE <<DigitChars[(n \div 10) + 1], DigitChars[(n % 10) + 1]>>

C6_Code(c) ==
    CASE c = 200 -> <<"2", "0", "0">>
      [] c = 404 -> <<"4", "0", "4">>
      [] c = 0 -> <<"0">>
      [] c = -1 -> <<"-", "1">>

\* C6: a destroyed response leaves in its message exactly the status line
\* "HTTP/1.1 <code> <message>", the headers as "<name>: <value>" lines in the
\* order they were pushed, a Content-Length line giving the size of the body
\* (whatever Content-Length headers the handler pushed), a blank line and the
\* body; 404 / Not Found / nope gives
\* "HTTP/1.1 404 Not Found\r\nContent-Length: 4\r\n\r\nnope".
C6_SerializedExactly ==
    slot.ready =>
        /\ slot.data =
              <<"H", "T", "T", "P", "/", "1", ".", "1">> \o <<SP>> \o C6_Code(response.code) \o <<SP>> \o response.message
              \o <<CR, LF>> \o C6_HeaderLines(response.headers)
              \o ContentLengthName \o <<":", SP>> \o C6_Decimal(Len(response.body))
              \o <<CR, LF, CR, LF>> \o response.body
        /\ (response = [code |-> 404, message |-> <<"N", "o", "t", SP, "F", "o", "u", "n", "d">>, headers |-> <<>>, body |-> <<"n", "o", "p", "e">>]
               => slot.data = 
                  <<"H", "T", "T", "P", "/", "1", ".", "1", SP, "4", "0", "4", SP, "N", "o", "t", SP, "F", "o", "u", "n", "d", CR, LF, "C", "o", "n", "t", "e", "n", "t", "-", "L", "e", "n", "g", "t", "h", ":", SP, "4", CR, LF, CR, LF, "n", "o", "p", "e">>)

C6_Witness ==
    /\ slot.ready
    /\ response.code = 404
    /\ Len(response.headers) = 2
    /\ response.headers[1][1] = ContentLengthName
    /\ Len(response.body) = 10

====
